---- MODULE Spec2Model ----
(***************************************************************************)
(* Rail network model and train traffic system of isometric-city.         *)
(*                                                                         *)
(* Sources: src/src/components/game/railSystem.ts (grid oracles, track    *)
(* classifier, pathfinder), src/unnamed/part_002 (train system: spawn,    *)
(* movement, carriage follow), src/src/components/game/constants.ts       *)
(* (direction metadata).                                                   *)
(*                                                                         *)
(* Numbers: progress is counted in thousandths of a tile (PROGRESS_ONE =  *)
(* 1000 is one tile), time in whole seconds, speed in thousandths of a    *)
(* tile per second; a draw of Math.random() is counted in hundredths.     *)
(***************************************************************************)
EXTENDS Integers, Sequences, FiniteSets, TLC

VARIABLES
    grid,       \* Tile[][]: grid[y][x], rows indexed by y, 0-based
    gridSize,   \* the grid is gridSize x gridSize
    call,       \* the last call of a rail function: its name, arguments, result
    train,      \* the train the tick driver holds, NoTrain when it holds none
    trainIdRef, \* trainIdRef.current, the id generator shared by all spawns
    edits       \* number of tiles bulldozed since the start

vars == <<grid, gridSize, call, train, trainIdRef, edits>>

\* what the pure rail functions leave alone
driver == <<train, trainIdRef, edits>>

\* no train: the null of spawnTrain, and the driver's empty slot
NoTrain == [type |-> "none"]

(***************************************************************************)
(* Tiles and grids                                                         *)
(***************************************************************************)

\* A Tile as far as the rail subsystem reads it: building.type, hasRailOverlay
Tile(t, o) == [type |-> t, hasRailOverlay |-> o]

Grass == Tile("grass", FALSE)
Empty == Tile("empty", FALSE)
Rail == Tile("rail", FALSE)
Road == Tile("road", FALSE)
RoadRail == Tile("road", TRUE)
Station == Tile("rail_station", FALSE)
\* a tile that is no road and still carries the overlay flag
GrassFlag == Tile("grass", TRUE)

TileKinds == {Grass, Empty, Rail, Road, RoadRail, Station, GrassFlag}

Coords(size) == 0 .. (size - 1)

\* every grid of the given size over the given tiles
AllGrids(size, kinds) == [Coords(size) -> [Coords(size) -> kinds]]

\* the grid of one tile kind
Uniform(size, k) == [y \in Coords(size) |-> [x \in Coords(size) |-> k]]

\* g with the tile at (x, y) replaced
Put(g, x, y, k) == [g EXCEPT ![y][x] = k]

Directions == <<"north", "east", "south", "west">>
DirSet == {"north", "east", "south", "west"}

(***************************************************************************)
(* Grid adjacency oracle (railSystem.ts)                                   *)
(***************************************************************************)

isRailTile_AnyOverlay(g, size, x, y) ==
    IF x < 0 \/ y < 0 \/ x >= size \/ y >= size THEN FALSE
    ELSE LET tile == g[y][x]
         IN  tile.type = "rail" \/ tile.hasRailOverlay = TRUE

isRailTile(g, size, x, y) ==
    IF x < 0 \/ y < 0 \/ x >= size \/ y >= size THEN FALSE
    ELSE LET tile == g[y][x]
         IN  tile.type = "rail" \/ (tile.type = "road" /\ tile.hasRailOverlay = TRUE)

isRailStationTile_NoNorthWest(g, size, x, y) ==
    IF x < 0 \/ y < 0 \/ x >= size \/ y >= size THEN FALSE
    ELSE LET tile == g[y][x]
         IN  IF tile.type = "rail_station" THEN TRUE
             ELSE IF tile.type = "empty"
                  THEN IF x > 0 /\ g[y][x - 1].type = "rail_station" THEN TRUE
                       ELSE IF y > 0 /\ g[y - 1][x].type = "rail_station" THEN TRUE
                       ELSE FALSE
                  ELSE FALSE

isRailStationTile(g, size, x, y) ==
    IF x < 0 \/ y < 0 \/ x >= size \/ y >= size THEN FALSE
    ELSE LET tile == g[y][x]
         IN  IF tile.type = "rail_station" THEN TRUE
             ELSE IF tile.type = "empty"
                  THEN IF x > 0 /\ g[y][x - 1].type = "rail_station" THEN TRUE
                       ELSE IF y > 0 /\ g[y - 1][x].type = "rail_station" THEN TRUE
                       ELSE IF x > 0 /\ y > 0 /\ g[y - 1][x - 1].type = "rail_station" THEN TRUE
                       ELSE FALSE
                  ELSE FALSE

hasRailAtPosition_NoStation(g, size, x, y) ==
    IF x < 0 \/ y < 0 \/ x >= size \/ y >= size THEN FALSE
    ELSE LET tile == g[y][x]
         IN  \/ tile.type = "rail"
             \/ (tile.type = "empty" /\ isRailStationTile(g, size, x, y))
             \/ (tile.type = "road" /\ tile.hasRailOverlay = TRUE)

hasRailAtPosition(g, size, x, y) ==
    IF x < 0 \/ y < 0 \/ x >= size \/ y >= size THEN FALSE
    ELSE LET tile == g[y][x]
         IN  \/ tile.type = "rail"
             \/ isRailStationTile(g, size, x, y)
             \/ (tile.type = "road" /\ tile.hasRailOverlay = TRUE)

getAdjacentRail_Compass(g, size, x, y) ==
    [north |-> hasRailAtPosition(g, size, x, y - 1),
     east  |-> hasRailAtPosition(g, size, x + 1, y),
     south |-> hasRailAtPosition(g, size, x, y + 1),
     west  |-> hasRailAtPosition(g, size, x - 1, y)]

getAdjacentRail(g, size, x, y) ==
    [north |-> hasRailAtPosition(g, size, x - 1, y),
     east  |-> hasRailAtPosition(g, size, x, y - 1),
     south |-> hasRailAtPosition(g, size, x + 1, y),
     west  |-> hasRailAtPosition(g, size, x, y + 1)]

\* the closure hasRailAt of getAdjacentRailForOverlay
hasRailAt(g, size, checkX, checkY) ==
    IF checkX < 0 \/ checkY < 0 \/ checkX >= size \/ checkY >= size THEN FALSE
    ELSE LET tile == g[checkY][checkX]
         IN  \/ tile.type = "rail"
             \/ isRailStationTile(g, size, checkX, checkY)
             \/ (tile.type = "road" /\ tile.hasRailOverlay = TRUE)

getAdjacentRailForOverlay(g, size, x, y) ==
    [north |-> hasRailAt(g, size, x - 1, y),
     east  |-> hasRailAt(g, size, x, y - 1),
     south |-> hasRailAt(g, size, x + 1, y),
     west  |-> hasRailAt(g, size, x, y + 1)]

(***************************************************************************)
(* Track classifier (railSystem.ts)                                        *)
(***************************************************************************)

AllConnections == [north : BOOLEAN, east : BOOLEAN, south : BOOLEAN, west : BOOLEAN]

getTrackType_TerminusTowards(connections) ==
    LET north == connections.north
        east  == connections.east
        south == connections.south
        west  == connections.west
        count == Cardinality({d \in DirSet : connections[d]})
    IN  IF count = 4 THEN "junction_cross"
        ELSE IF count = 3 /\ ~north THEN "junction_t_n"
        ELSE IF count = 3 /\ ~east THEN "junction_t_e"
        ELSE IF count = 3 /\ ~south THEN "junction_t_s"
        ELSE IF count = 3 /\ ~west THEN "junction_t_w"
        ELSE IF north /\ south /\ ~east /\ ~west THEN "straight_ns"
        ELSE IF east /\ west /\ ~north /\ ~south THEN "straight_ew"
        ELSE IF north /\ east /\ ~south /\ ~west THEN "curve_ne"
        ELSE IF north /\ west /\ ~south /\ ~east THEN "curve_nw"
        ELSE IF south /\ east /\ ~north /\ ~west THEN "curve_se"
        ELSE IF south /\ west /\ ~north /\ ~east THEN "curve_sw"
        ELSE IF count = 1 /\ north THEN "terminus_n"
        ELSE IF count = 1 /\ east THEN "terminus_e"
        ELSE IF count = 1 /\ south THEN "terminus_s"
        ELSE IF count = 1 /\ west THEN "terminus_w"
        ELSE "single"

getTrackType(connections) ==
    LET north == connections.north
        east  == connections.east
        south == connections.south
        west  == connections.west
        count == Cardinality({d \in DirSet : connections[d]})
    IN  IF count = 4 THEN "junction_cross"
        ELSE IF count = 3 /\ ~north THEN "junction_t_n"
        ELSE IF count = 3 /\ ~east THEN "junction_t_e"
        ELSE IF count = 3 /\ ~south THEN "junction_t_s"
        ELSE IF count = 3 /\ ~west THEN "junction_t_w"
        ELSE IF north /\ south /\ ~east /\ ~west THEN "straight_ns"
        ELSE IF east /\ west /\ ~north /\ ~south THEN "straight_ew"
        ELSE IF north /\ east /\ ~south /\ ~west THEN "curve_ne"
        ELSE IF north /\ west /\ ~south /\ ~east THEN "curve_nw"
        ELSE IF south /\ east /\ ~north /\ ~west THEN "curve_se"
        ELSE IF south /\ west /\ ~north /\ ~east THEN "curve_sw"
        ELSE IF count = 1 /\ north THEN "terminus_s"
        ELSE IF count = 1 /\ east THEN "terminus_w"
        ELSE IF count = 1 /\ south THEN "terminus_n"
        ELSE IF count = 1 /\ west THEN "terminus_e"
        ELSE "single"

(***************************************************************************)
(* Calls of the pure rail functions                                        *)
(***************************************************************************)

NoCall == [fn |-> "none"]

\* grids of the oracle specification: every 2x2 grid over all tile kinds,
\* 3x3 grids of one kind with up to MaxPlaced tiles replaced, and the
\* 6x6 grid holding one 2x2 station with origin (3,3)
MaxPlaced == 1

RECURSIVE Placed(_, _, _)
Placed(size, gs, k) ==
    IF k = 0 THEN gs
    ELSE Placed(size,
                gs \cup {Put(g, x, y, t) : g \in gs, x \in Coords(size),
                                           y \in Coords(size), t \in TileKinds},
                k - 1)

StationGrid == Put(Uniform(6, Empty), 3, 3, Station)

OracleGrids ==
    AllGrids(2, TileKinds)
        \cup Placed(3, {Uniform(3, k) : k \in {Grass, Empty, Rail}}, MaxPlaced)
        \cup {StationGrid}

SizeOf(g) == Cardinality(DOMAIN g)

\* arguments reach one tile past every edge of the grid
Args(size) == (-1) .. size

InitOracle ==
    /\ train = NoTrain
    /\ trainIdRef = 0
    /\ edits = 0
    /\ grid \in OracleGrids
    /\ gridSize = SizeOf(grid)
    /\ call = NoCall

CallIsRailTile ==
    \E x \in Args(gridSize), y \in Args(gridSize) :
        /\ call = NoCall
        /\ call' = [fn |-> "isRailTile", x |-> x, y |-> y,
                    ret |-> isRailTile(grid, gridSize, x, y)]
        /\ UNCHANGED <<grid, gridSize, driver>>

CallIsRailStationTile ==
    \E x \in Args(gridSize), y \in Args(gridSize) :
        /\ call = NoCall
        /\ call' = [fn |-> "isRailStationTile", x |-> x, y |-> y,
                    ret |-> isRailStationTile(grid, gridSize, x, y)]
        /\ UNCHANGED <<grid, gridSize, driver>>

CallGetAdjacentRail ==
    \E x \in Args(gridSize), y \in Args(gridSize) :
        /\ call = NoCall
        /\ call' = [fn |-> "getAdjacentRail", x |-> x, y |-> y,
                    ret |-> getAdjacentRail(grid, gridSize, x, y)]
        /\ UNCHANGED <<grid, gridSize, driver>>

\* the overlay renderer asks both oracles about the same tile
CallGetAdjacentRailForOverlay ==
    \E x \in Args(gridSize), y \in Args(gridSize) :
        /\ call = NoCall
        /\ call' = [fn |-> "getAdjacentRailForOverlay", x |-> x, y |-> y,
                    ret |-> getAdjacentRailForOverlay(grid, gridSize, x, y),
                    base |-> getAdjacentRail(grid, gridSize, x, y)]
        /\ UNCHANGED <<grid, gridSize, driver>>

CallGetTrackType ==
    \E c \in AllConnections :
        /\ call = NoCall
        /\ call' = [fn |-> "getTrackType", connections |-> c, ret |-> getTrackType(c)]
        /\ UNCHANGED <<grid, gridSize, driver>>

\* the caller takes the result; the next call starts from no pending result
Return ==
    /\ call # NoCall
    /\ call' = NoCall
    /\ UNCHANGED <<grid, gridSize, driver>>

NextOracle ==
    \/ CallIsRailTile
    \/ CallIsRailStationTile
    \/ CallGetAdjacentRail
    \/ CallGetAdjacentRailForOverlay
    \/ CallGetTrackType
    \/ Return

SpecOracle == InitOracle /\ [][NextOracle]_vars

(***************************************************************************)
(* Rail pathfinder (railSystem.ts)                                         *)
(***************************************************************************)

\* findPathOnRails returns null: no path is empty, each holds its start
Null == <<>>

Point(x, y) == [x |-> x, y |-> y]

\* const directions: north, east, south, west
PathDirections_SouthFirst ==
    <<[dx |-> 1, dy |-> 0], [dx |-> 0, dy |-> -1], [dx |-> -1, dy |-> 0], [dx |-> 0, dy |-> 1]>>

PathDirections ==
    <<[dx |-> -1, dy |-> 0], [dx |-> 0, dy |-> -1], [dx |-> 1, dy |-> 0], [dx |-> 0, dy |-> 1]>>

\* the for loop over directions for one dequeued entry, from direction i on;
\* st holds the queue and the visited set
RECURSIVE ExpandNeighbours_RailOnly(_, _, _, _, _)
ExpandNeighbours_RailOnly(g, size, current, i, st) ==
    IF i > Len(PathDirections) THEN st
    ELSE LET nx == current.x + PathDirections[i].dx
             ny == current.y + PathDirections[i].dy
             key == <<nx, ny>>
         IN  IF nx < 0 \/ ny < 0 \/ nx >= size \/ ny >= size
             THEN ExpandNeighbours_RailOnly(g, size, current, i + 1, st)
             ELSE IF key \in st.visited
             THEN ExpandNeighbours_RailOnly(g, size, current, i + 1, st)
             ELSE IF ~isRailTile(g, size, nx, ny)
             THEN ExpandNeighbours_RailOnly(g, size, current, i + 1, st)
             ELSE ExpandNeighbours_RailOnly(g, size, current, i + 1,
                      [visited |-> st.visited \cup {key},
                       queue |-> Append(st.queue,
                                        [x |-> nx, y |-> ny,
                                         path |-> Append(current.path, Point(nx, ny))])])

RECURSIVE ExpandNeighbours(_, _, _, _, _)
ExpandNeighbours(g, size, current, i, st) ==
    IF i > Len(PathDirections) THEN st
    ELSE LET nx == current.x + PathDirections[i].dx
             ny == current.y + PathDirections[i].dy
             key == <<nx, ny>>
         IN  IF nx < 0 \/ ny < 0 \/ nx >= size \/ ny >= size
             THEN ExpandNeighbours(g, size, current, i + 1, st)
             ELSE IF key \in st.visited
             THEN ExpandNeighbours(g, size, current, i + 1, st)
             ELSE IF ~isRailTile(g, size, nx, ny) /\ ~isRailStationTile(g, size, nx, ny)
             THEN ExpandNeighbours(g, size, current, i + 1, st)
             ELSE ExpandNeighbours(g, size, current, i + 1,
                      [visited |-> st.visited \cup {key},
                       queue |-> Append(st.queue,
                                        [x |-> nx, y |-> ny,
                                         path |-> Append(current.path, Point(nx, ny))])])

\* the while loop; shifted lists the entries taken off the queue so far
RECURSIVE SearchLoop(_, _, _, _, _, _)
SearchLoop(g, size, endX, endY, st, shifted) ==
    IF Len(st.queue) = 0
    THEN [path |-> Null, shifted |-> shifted, visited |-> st.visited]
    ELSE LET current == Head(st.queue)
             rest == [st EXCEPT !.queue = Tail(st.queue)]
             taken == Append(shifted, <<current.x, current.y>>)
         IN  IF current.x = endX /\ current.y = endY
             THEN [path |-> current.path, shifted |-> taken, visited |-> st.visited]
             ELSE SearchLoop(g, size, endX, endY,
                             ExpandNeighbours(g, size, current, 1, rest), taken)

\* the search with a start that is not marked as visited
SearchOnRails_StartUnmarked(g, size, startX, startY, endX, endY) ==
    SearchLoop(g, size, endX, endY,
               [queue |-> <<[x |-> startX, y |-> startY,
                             path |-> <<Point(startX, startY)>>]>>,
                visited |-> {}],
               <<>>)

\* the whole search, with the cells it dequeued and marked
SearchOnRails(g, size, startX, startY, endX, endY) ==
    SearchLoop(g, size, endX, endY,
               [queue |-> <<[x |-> startX, y |-> startY,
                             path |-> <<Point(startX, startY)>>]>>,
                visited |-> {<<startX, startY>>}],
               <<>>)

findPathOnRails(g, size, startX, startY, endX, endY) ==
    SearchOnRails(g, size, startX, startY, endX, endY).path

\* grids of the pathfinder specification: every 3x3 grid of rail and grass,
\* every 2x2 grid with stations and their footprints, the 3x3 rail grid with
\* up to MaxPlaced tiles of any kind, and the 5x5 grid whose only rail is the
\* line (0,0)..(0,4)
LineGrid ==
    [y \in Coords(5) |-> [x \in Coords(5) |-> IF x = 0 THEN Rail ELSE Grass]]

PathGrids ==
    AllGrids(3, {Grass, Rail})
        \cup AllGrids(2, {Grass, Rail, Empty, Station})
        \cup Placed(3, {Uniform(3, Rail)}, MaxPlaced)
        \cup {LineGrid}

\* endpoints: on the grid, and one tile past its edges on the 2x2 grids
PathArgs(size) == IF size <= 2 THEN Args(size) ELSE Coords(size)

InitPath ==
    /\ train = NoTrain
    /\ trainIdRef = 0
    /\ edits = 0
    /\ grid \in PathGrids
    /\ gridSize = SizeOf(grid)
    /\ call = NoCall

CallFindPathOnRails ==
    \E startX \in PathArgs(gridSize), startY \in PathArgs(gridSize),
       endX \in PathArgs(gridSize), endY \in PathArgs(gridSize) :
        /\ call = NoCall
        /\ LET search == SearchOnRails(grid, gridSize, startX, startY, endX, endY)
           IN  call' = [fn |-> "findPathOnRails",
                        startX |-> startX, startY |-> startY,
                        endX |-> endX, endY |-> endY,
                        ret |-> search.path,
                        shifted |-> search.shifted]
        /\ UNCHANGED <<grid, gridSize, driver>>

NextPath ==
    \/ CallFindPathOnRails
    \/ Return

SpecPath == InitPath /\ [][NextPath]_vars

(***************************************************************************)
(* Train pathfinding helpers (railSystem.ts)                               *)
(***************************************************************************)

\* the options listed from west round to north
getRailDirectionOptions_WestFirst(g, size, x, y) ==
    (IF hasRailAtPosition(g, size, x, y + 1) THEN <<"west">> ELSE <<>>)
        \o (IF hasRailAtPosition(g, size, x + 1, y) THEN <<"south">> ELSE <<>>)
        \o (IF hasRailAtPosition(g, size, x, y - 1) THEN <<"east">> ELSE <<>>)
        \o (IF hasRailAtPosition(g, size, x - 1, y) THEN <<"north">> ELSE <<>>)

getRailDirectionOptions(g, size, x, y) ==
    (IF hasRailAtPosition(g, size, x - 1, y) THEN <<"north">> ELSE <<>>)
        \o (IF hasRailAtPosition(g, size, x, y - 1) THEN <<"east">> ELSE <<>>)
        \o (IF hasRailAtPosition(g, size, x + 1, y) THEN <<"south">> ELSE <<>>)
        \o (IF hasRailAtPosition(g, size, x, y + 1) THEN <<"west">> ELSE <<>>)

\* the tiles in the order of the nested loops: y outside, x inside
ScanOrder(size) ==
    [i \in 1 .. (size * size) |-> Point((i - 1) % size, (i - 1) \div size)]

findRailStations(g, size) ==
    SelectSeq(ScanOrder(size), LAMBDA p : g[p.y][p.x].type = "rail_station")

countRailTiles_WithStations(g, size) ==
    Len(SelectSeq(ScanOrder(size),
                  LAMBDA p : LET tile == g[p.y][p.x]
                             IN  \/ tile.type = "rail"
                                 \/ tile.type = "rail_station"
                                 \/ (tile.type = "road" /\ tile.hasRailOverlay = TRUE)))

countRailTiles(g, size) ==
    Len(SelectSeq(ScanOrder(size),
                  LAMBDA p : LET tile == g[p.y][p.x]
                             IN  \/ tile.type = "rail"
                                 \/ (tile.type = "road" /\ tile.hasRailOverlay = TRUE)))

(***************************************************************************)
(* Train system: constants and creation (part_002)                         *)
(***************************************************************************)

\* one tile of progress: the 1 of "train.progress >= 1", in thousandths
PROGRESS_ONE == 1000

MIN_RAIL_TILES_FOR_TRAINS == 10
STATION_STOP_DURATION == 2
TRAIN_MAX_AGE == 60
\* 0.28 of a tile
CARRIAGE_SPACING == 280
\* "if (train.path.length > 80)"
PATH_LIMIT == 80

\* carriage counts with longer passenger trains
TRAIN_CARRIAGE_COUNTS_Long ==
    [passenger |-> [min |-> 5, max |-> 12], freight |-> [min |-> 6, max |-> 10]]

TRAIN_CARRIAGE_COUNTS ==
    [passenger |-> [min |-> 5, max |-> 8], freight |-> [min |-> 6, max |-> 10]]

\* steps by the compass: north up the rows, east along them
DIRECTION_META_Compass ==
    [north |-> [step |-> [x |-> 0, y |-> -1]],
     east  |-> [step |-> [x |-> 1, y |-> 0]],
     south |-> [step |-> [x |-> 0, y |-> 1]],
     west  |-> [step |-> [x |-> -1, y |-> 0]]]

DIRECTION_META ==
    [north |-> [step |-> [x |-> -1, y |-> 0]],
     east  |-> [step |-> [x |-> 0, y |-> -1]],
     south |-> [step |-> [x |-> 1, y |-> 0]],
     west  |-> [step |-> [x |-> 0, y |-> 1]]]

\* every heading its own opposite
OPPOSITE_DIRECTION_Same ==
    [north |-> "north", east |-> "east", south |-> "south", west |-> "west"]

OPPOSITE_DIRECTION ==
    [north |-> "south", east |-> "west", south |-> "north", west |-> "east"]

\* Math.random(), in hundredths: the draws 0 and 0.99 where the draw picks
\* an index or a branch (the first and the last index, either branch), the
\* draw 0 for speeds, maximum ages, colours and freight car types
RandomDraws == {0, 99}
ScalarDraws == {0}

\* Math.floor(r * n)
Floor(r, n) == (r * n) \div 100

\* list[Math.floor(Math.random() * list.length)] at the draw r
Pick(list, r) == list[Floor(r, Len(list)) + 1]

LOCOMOTIVE_COLORS == <<"#1e40af", "#dc2626", "#059669", "#7c3aed", "#ea580c", "#0891b2">>
FREIGHT_COLORS == <<"#8B4513", "#696969", "#2F4F4F", "#8B0000", "#006400", "#4682B4">>
PASSENGER_COLORS == <<"#C0C0C0", "#1e40af", "#059669", "#7c3aed">>

Carriage(type, color, tileX, tileY, progress, direction) ==
    [type |-> type, color |-> color, tileX |-> tileX, tileY |-> tileY,
     progress |-> progress, direction |-> direction]

\* the carriage list: locomotive, numCarriages - 2 body cars, caboose
\* (index i of the source is position i + 1 of the sequence)
Carriages(numCarriages, locomotiveColor, bodyType, bodyColor, cabooseColor, tileX, tileY, direction) ==
    [k \in 1 .. numCarriages |->
        IF k = 1
        THEN Carriage("locomotive", locomotiveColor, tileX, tileY, 0, direction)
        ELSE IF k < numCarriages
        THEN Carriage(bodyType, bodyColor, tileX, tileY,
                      -((k - 1) * CARRIAGE_SPACING), direction)
        ELSE Carriage("caboose", cabooseColor, tileX, tileY,
                      -((numCarriages - 1) * CARRIAGE_SPACING), direction)]

\* the trains createPassengerTrain can return, over the random draws
createPassengerTrain(id, tileX, tileY, direction) ==
    { [id |-> id,
       type |-> "passenger",
       carriages |-> Carriages(numCarriages, Pick(LOCOMOTIVE_COLORS, c), "passenger",
                               Pick(PASSENGER_COLORS, c), Pick(LOCOMOTIVE_COLORS, c),
                               tileX, tileY, direction),
       tileX |-> tileX,
       tileY |-> tileY,
       direction |-> direction,
       progress |-> 0,
       speed |-> 250 + Floor(s, 100),
       path |-> <<Point(tileX, tileY)>>,
       pathIndex |-> 0,
       age |-> 0,
       maxAge |-> TRAIN_MAX_AGE + Floor(a, 30),
       color |-> Pick(LOCOMOTIVE_COLORS, c),
       atStation |-> FALSE,
       stationWaitTimer |-> 0] :
      numCarriages \in {TRAIN_CARRIAGE_COUNTS.passenger.min
                          + Floor(n, TRAIN_CARRIAGE_COUNTS.passenger.max
                                     - TRAIN_CARRIAGE_COUNTS.passenger.min + 1) :
                        n \in RandomDraws},
      c \in ScalarDraws, s \in ScalarDraws, a \in ScalarDraws }

\* the trains createFreightTrain can return, over the random draws
createFreightTrain(id, tileX, tileY, direction) ==
    { [id |-> id,
       type |-> "freight",
       carriages |-> Carriages(numCarriages, Pick(LOCOMOTIVE_COLORS, c),
                               Pick(<<"freight_box", "freight_tank", "freight_flat">>, c),
                               Pick(FREIGHT_COLORS, c), "#8B0000",
                               tileX, tileY, direction),
       tileX |-> tileX,
       tileY |-> tileY,
       direction |-> direction,
       progress |-> 0,
       speed |-> 180 + Floor(s, 80),
       path |-> <<Point(tileX, tileY)>>,
       pathIndex |-> 0,
       age |-> 0,
       maxAge |-> TRAIN_MAX_AGE + Floor(a, 40),
       color |-> Pick(LOCOMOTIVE_COLORS, c),
       atStation |-> FALSE,
       stationWaitTimer |-> 0] :
      numCarriages \in {TRAIN_CARRIAGE_COUNTS.freight.min
                          + Floor(n, TRAIN_CARRIAGE_COUNTS.freight.max
                                     - TRAIN_CARRIAGE_COUNTS.freight.min + 1) :
                        n \in RandomDraws},
      c \in ScalarDraws, s \in ScalarDraws, a \in ScalarDraws }

(***************************************************************************)
(* Train spawning (part_002)                                               *)
(***************************************************************************)

\* a function that found nothing returns null
NullResult == [null |-> TRUE]

Spot(x, y, direction) == [x |-> x, y |-> y, direction |-> direction]

\* the sides with each heading pointing out of the station
StationSides_Away ==
    <<[dx |-> -1, dy |-> 0, dir |-> "north"],
      [dx |-> 0, dy |-> -1, dir |-> "east"],
      [dx |-> 1, dy |-> 0, dir |-> "south"],
      [dx |-> 0, dy |-> 1, dir |-> "west"]>>

\* findAdjacentRailToStation.directions
StationSides ==
    <<[dx |-> -1, dy |-> 0, dir |-> "south"],
      [dx |-> 0, dy |-> -1, dir |-> "west"],
      [dx |-> 1, dy |-> 0, dir |-> "north"],
      [dx |-> 0, dy |-> 1, dir |-> "east"]>>

\* findAdjacentRailToStation.diagonals
StationDiagonals ==
    <<[dx |-> -1, dy |-> -1], [dx |-> -1, dy |-> 1],
      [dx |-> 1, dy |-> -1], [dx |-> 1, dy |-> 1],
      [dx |-> 2, dy |-> 0], [dx |-> 0, dy |-> 2],
      [dx |-> -2, dy |-> 0], [dx |-> 0, dy |-> -2]>>

\* the second loop of findAdjacentRailToStation from entry i on: the spots it
\* can return over the random draw of the direction
RECURSIVE DiagonalSpots(_, _, _, _, _)
DiagonalSpots(g, size, stationX, stationY, i) ==
    IF i > Len(StationDiagonals) THEN {NullResult}
    ELSE LET nx == stationX + StationDiagonals[i].dx
             ny == stationY + StationDiagonals[i].dy
             options == getRailDirectionOptions(g, size, nx, ny)
         IN  IF isRailTile(g, size, nx, ny) /\ Len(options) > 0
             THEN {Spot(nx, ny, Pick(options, r)) : r \in RandomDraws}
             ELSE DiagonalSpots(g, size, stationX, stationY, i + 1)

\* the results findAdjacentRailToStation can return
findAdjacentRailToStation(g, size, stationX, stationY) ==
    LET sides == SelectSeq(StationSides,
                           LAMBDA d : isRailTile(g, size, stationX + d.dx, stationY + d.dy))
    IN  IF Len(sides) > 0
        THEN {Spot(stationX + sides[1].dx, stationY + sides[1].dy, sides[1].dir)}
        ELSE DiagonalSpots(g, size, stationX, stationY, 1)

\* the results findRandomRailTile can return
findRandomRailTile(g, size) ==
    LET connected == SelectSeq(ScanOrder(size),
                         LAMBDA p : /\ isRailTile(g, size, p.x, p.y)
                                    /\ Len(getRailDirectionOptions(g, size, p.x, p.y)) >= 2)
        any == SelectSeq(ScanOrder(size), LAMBDA p : isRailTile(g, size, p.x, p.y))
        railTiles == IF Len(connected) = 0 THEN any ELSE connected
    IN  IF Len(railTiles) = 0 THEN {NullResult}
        ELSE {Pick(railTiles, r) : r \in RandomDraws}

\* an id taken without moving the generator on
PostIncrement_Stuck(idRef) == [value |-> idRef, current |-> idRef]

\* trainIdRef.current++ : the value of the expression and the generator after
PostIncrement(idRef) == [value |-> idRef, current |-> idRef + 1]

\* the outcomes of spawnTrain over its random draws: the train returned
\* (NoTrain for null), the id generator after the call, and the station the
\* train was spawned from, if any
spawnTrain(g, size, idRef) ==
    LET railTileCount == countRailTiles(g, size)
        stations == findRailStations(g, size)
        refused(station) == [train |-> NoTrain, trainIdRef |-> idRef, station |-> station]
        id == PostIncrement(idRef)
        created(spot, station) ==
            {[train |-> t, trainIdRef |-> id.current, station |-> station] :
                t \in UNION {IF r < 50
                             THEN createPassengerTrain(id.value, spot.x, spot.y, spot.direction)
                             ELSE createFreightTrain(id.value, spot.x, spot.y, spot.direction) :
                             r \in RandomDraws}}
        \* the branch taken when stations.length > 0 && Math.random() < 0.7
        fromStation ==
            UNION {UNION {IF adjacentRail = NullResult
                          THEN {refused(station)}
                          ELSE created(adjacentRail, station) :
                          adjacentRail \in findAdjacentRailToStation(g, size,
                                               station.x, station.y)} :
                   station \in {Pick(stations, r) : r \in RandomDraws}}
        \* otherwise: a random rail tile and a random direction
        fromRailTile ==
            UNION {IF railTile = NullResult
                   THEN {refused(NullResult)}
                   ELSE LET options == getRailDirectionOptions(g, size, railTile.x, railTile.y)
                        IN  IF Len(options) = 0
                            THEN {refused(NullResult)}
                            ELSE UNION {created(Spot(railTile.x, railTile.y, Pick(options, r)),
                                                NullResult) : r \in RandomDraws} :
                   railTile \in findRandomRailTile(g, size)}
    IN  IF railTileCount < MIN_RAIL_TILES_FOR_TRAINS
        THEN {refused(NullResult)}
        ELSE UNION {IF Len(stations) > 0 /\ r < 70 THEN fromStation ELSE fromRailTile :
                    r \in RandomDraws}

(***************************************************************************)
(* Train movement (part_002)                                               *)
(***************************************************************************)

\* pickNextDirection and getDirectionToTile return null
NullDirection == "null"

Includes(seq, e) == \E k \in 1 .. Len(seq) : seq[k] = e

\* a train sent back on every tile
pickNextDirection_AlwaysBack(previousDirection, g, size, x, y) ==
    OPPOSITE_DIRECTION[previousDirection]

pickNextDirection(previousDirection, g, size, x, y) ==
    LET options == getRailDirectionOptions(g, size, x, y)
        connections == getAdjacentRail(g, size, x, y)
        trackType == getTrackType(connections)
        incoming == OPPOSITE_DIRECTION[previousDirection]
        filtered == SelectSeq(options, LAMBDA dir : dir # incoming)
    IN  IF Len(options) = 0 THEN NullDirection
        ELSE IF Len(filtered) = 0 THEN incoming
        ELSE CASE trackType \in {"straight_ns", "straight_ew"} ->
                    IF Includes(filtered, previousDirection)
                    THEN previousDirection ELSE filtered[1]
               [] trackType \in {"curve_ne", "curve_nw", "curve_se", "curve_sw"} ->
                    filtered[1]
               [] trackType \in {"junction_t_n", "junction_t_e",
                                 "junction_t_s", "junction_t_w"} ->
                    IF Includes(filtered, previousDirection)
                    THEN previousDirection ELSE filtered[1]
               [] trackType = "junction_cross" ->
                    IF Includes(filtered, previousDirection)
                    THEN previousDirection ELSE filtered[1]
               [] trackType \in {"terminus_n", "terminus_e",
                                 "terminus_s", "terminus_w"} ->
                    incoming
               [] OTHER -> filtered[1]

getDirectionToTile(fromX, fromY, toX, toY) ==
    LET dx == toX - fromX
        dy == toY - fromY
    IN  IF dx = -1 /\ dy = 0 THEN "north"
        ELSE IF dx = 1 /\ dy = 0 THEN "south"
        ELSE IF dx = 0 /\ dy = -1 THEN "east"
        ELSE IF dx = 0 /\ dy = 1 THEN "west"
        ELSE NullDirection

Max(a, b) == IF a >= b THEN a ELSE b
Min(a, b) == IF a <= b THEN a ELSE b

\* no walk back: every carriage stays where the walk starts
WalkBack_Still(t, w) == w

\* the walk back along the path of updateCarriagePositions:
\* while (carriageProgress < 0 && pathIdx > 0)
RECURSIVE WalkBack(_, _)
WalkBack(t, w) ==
    IF w.carriageProgress < 0 /\ w.pathIdx > 0
    THEN LET pathIdx == w.pathIdx - 1
             carriageProgress == w.carriageProgress + PROGRESS_ONE
         IN  IF pathIdx >= 0 /\ pathIdx < Len(t.path)
             THEN LET prevTile == t.path[pathIdx + 1]
                      dir == IF pathIdx + 1 < Len(t.path)
                             THEN getDirectionToTile(prevTile.x, prevTile.y,
                                                     t.path[pathIdx + 2].x,
                                                     t.path[pathIdx + 2].y)
                             ELSE NullDirection
                  IN  WalkBack(t, [pathIdx |-> pathIdx,
                                   carriageProgress |-> carriageProgress,
                                   carriageTileX |-> prevTile.x,
                                   carriageTileY |-> prevTile.y,
                                   carriageDirection |->
                                       IF dir # NullDirection THEN dir
                                       ELSE w.carriageDirection,
                                   foundValidPosition |-> TRUE])
             ELSE WalkBack(t, [w EXCEPT !.pathIdx = pathIdx,
                                        !.carriageProgress = carriageProgress])
    ELSE w

\* the for loop body with the final clamp applied to the locomotive as well
FollowLocomotive_ClampAll(t, i) ==
    LET carriage == t.carriages[i + 1]
        spawnTile == t.path[1]
        targetProgress == t.progress - i * CARRIAGE_SPACING
        w == WalkBack(t, [pathIdx |-> t.pathIndex,
                          carriageProgress |-> targetProgress,
                          carriageTileX |-> t.tileX,
                          carriageTileY |-> t.tileY,
                          carriageDirection |-> t.direction,
                          foundValidPosition |-> FALSE])
        pinned == ~w.foundValidPosition /\ w.carriageProgress < 0
        carriageProgress == IF pinned THEN 0 ELSE w.carriageProgress
    IN  [carriage EXCEPT
           !.tileX = IF pinned THEN spawnTile.x ELSE w.carriageTileX,
           !.tileY = IF pinned THEN spawnTile.y ELSE w.carriageTileY,
           !.progress = Max(0, Min(990, carriageProgress)),
           !.direction = w.carriageDirection]

\* the body of the for loop of updateCarriagePositions for carriage i (from 0)
FollowLocomotive(t, i) ==
    LET carriage == t.carriages[i + 1]
        spawnTile == t.path[1]
    IN  IF i = 0
        THEN [carriage EXCEPT !.tileX = t.tileX, !.tileY = t.tileY,
                              !.progress = t.progress, !.direction = t.direction]
        ELSE LET targetProgress == t.progress - i * CARRIAGE_SPACING
                 w == WalkBack(t, [pathIdx |-> t.pathIndex,
                                   carriageProgress |-> targetProgress,
                                   carriageTileX |-> t.tileX,
                                   carriageTileY |-> t.tileY,
                                   carriageDirection |-> t.direction,
                                   foundValidPosition |-> FALSE])
                 pinned == ~w.foundValidPosition /\ w.carriageProgress < 0
                 carriageProgress == IF pinned THEN 0 ELSE w.carriageProgress
             IN  [carriage EXCEPT
                    !.tileX = IF pinned THEN spawnTile.x ELSE w.carriageTileX,
                    !.tileY = IF pinned THEN spawnTile.y ELSE w.carriageTileY,
                    !.progress = Max(0, Min(990, carriageProgress)),
                    !.direction = w.carriageDirection]

\* the carriages placed tail first
updateCarriagePositions_TailFirst(t, g, size) ==
    [t EXCEPT !.carriages = [k \in 1 .. Len(t.carriages) |->
                                FollowLocomotive(t, Len(t.carriages) - k)]]

updateCarriagePositions(t, g, size) ==
    [t EXCEPT !.carriages = [k \in 1 .. Len(t.carriages) |-> FollowLocomotive(t, k - 1)]]

\* the next tile is not valid rail: an alternative heading at the current
\* tile (progress 0.1), or the heading reversed in place (progress 0.5)
BlockedAhead(t, g, size) ==
    LET altDir == pickNextDirection(t.direction, g, size, t.tileX, t.tileY)
    IN  IF altDir = NullDirection
        THEN [t EXCEPT !.direction = OPPOSITE_DIRECTION[t.direction], !.progress = 500]
        ELSE [t EXCEPT !.direction = altDir, !.progress = 100]

\* a station stop that any type of train makes
StationStop_AnyType(t, g, size) ==
    IF isRailStationTile(g, size, t.tileX, t.tileY)
    THEN [t EXCEPT !.atStation = TRUE, !.stationWaitTimer = STATION_STOP_DURATION]
    ELSE t

\* "Check for station stop" on the tile the train has just moved onto
StationStop(t, g, size) ==
    IF isRailStationTile(g, size, t.tileX, t.tileY) /\ t.type = "passenger"
    THEN [t EXCEPT !.atStation = TRUE, !.stationWaitTimer = STATION_STOP_DURATION]
    ELSE t

\* the oldest entry dropped and the index left where it was
LimitPath_NoDecrement(t) ==
    IF Len(t.path) > PATH_LIMIT THEN [t EXCEPT !.path = Tail(t.path)] ELSE t

\* "Keep path limited": path.shift() and pathIndex-- beyond 80 entries
LimitPath(t) ==
    IF Len(t.path) > PATH_LIMIT
    THEN [t EXCEPT !.path = Tail(t.path), !.pathIndex = t.pathIndex - 1]
    ELSE t

\* one pass of the body of "while (train.progress >= 1)": the train after it
\* and whether the pass ended in a break
MoveStep(t, g, size) ==
    LET meta == DIRECTION_META[t.direction]
        newTileX == t.tileX + meta.step.x
        newTileY == t.tileY + meta.step.y
    IN  IF /\ ~isRailTile(g, size, newTileX, newTileY)
           /\ ~isRailStationTile(g, size, newTileX, newTileY)
        THEN [train |-> BlockedAhead(t, g, size), break |-> TRUE]
        ELSE LET moved == [t EXCEPT !.tileX = newTileX, !.tileY = newTileY,
                                    !.progress = t.progress - PROGRESS_ONE]
                 stopped == StationStop(moved, g, size)
                 nextDir == pickNextDirection(stopped.direction, g, size,
                                              stopped.tileX, stopped.tileY)
                 turned == IF nextDir # NullDirection
                           THEN [stopped EXCEPT !.direction = nextDir]
                           ELSE stopped
                 pushed == [turned EXCEPT
                               !.path = Append(turned.path, Point(newTileX, newTileY)),
                               !.pathIndex = turned.pathIndex + 1]
             IN  [train |-> LimitPath(pushed), break |-> FALSE]

\* an "if" in place of the "while": one tile a call at most
MoveLoop_Once(t, g, size) ==
    IF t.progress >= PROGRESS_ONE THEN MoveStep(t, g, size).train ELSE t

\* "while (train.progress >= 1)" of updateTrain
RECURSIVE MoveLoop(_, _, _)
MoveLoop(t, g, size) ==
    IF t.progress >= PROGRESS_ONE
    THEN LET pass == MoveStep(t, g, size)
         IN  IF pass.break THEN pass.train ELSE MoveLoop(pass.train, g, size)
    ELSE t

\* updateTrain: the train as the call leaves it, and the value returned
updateTrain_DwellFirst(t, delta, speedMultiplier, g, size) ==
    LET aged == [t EXCEPT !.age = t.age + delta * speedMultiplier]
    IN  IF aged.atStation
        THEN LET waited == [aged EXCEPT
                              !.stationWaitTimer = aged.stationWaitTimer - delta * speedMultiplier]
             IN  [train |-> IF waited.stationWaitTimer <= 0
                            THEN [waited EXCEPT !.atStation = FALSE] ELSE waited,
                  ret |-> TRUE]
        ELSE IF aged.age > aged.maxAge
        THEN [train |-> aged, ret |-> FALSE]
        ELSE IF /\ ~isRailTile(g, size, aged.tileX, aged.tileY)
                /\ ~isRailStationTile(g, size, aged.tileX, aged.tileY)
        THEN [train |-> aged, ret |-> FALSE]
        ELSE LET advanced == [aged EXCEPT
                                !.progress = aged.progress + aged.speed * delta * speedMultiplier]
             IN  [train |-> updateCarriagePositions(MoveLoop(advanced, g, size), g, size),
                  ret |-> TRUE]

\* updateTrain with a change of heading tried before the train is given up
updateTrain_ReverseFirst(t, delta, speedMultiplier, g, size) ==
    LET aged == [t EXCEPT !.age = t.age + delta * speedMultiplier]
        altDir == pickNextDirection(aged.direction, g, size, aged.tileX, aged.tileY)
    IN  IF aged.age > aged.maxAge
        THEN [train |-> aged, ret |-> FALSE]
        ELSE IF aged.atStation
        THEN LET waited == [aged EXCEPT
                              !.stationWaitTimer = aged.stationWaitTimer - delta * speedMultiplier]
             IN  [train |-> IF waited.stationWaitTimer <= 0
                            THEN [waited EXCEPT !.atStation = FALSE] ELSE waited,
                  ret |-> TRUE]
        ELSE IF /\ ~isRailTile(g, size, aged.tileX, aged.tileY)
                /\ ~isRailStationTile(g, size, aged.tileX, aged.tileY)
        THEN IF altDir = NullDirection
             THEN [train |-> aged, ret |-> FALSE]
             ELSE [train |-> [aged EXCEPT !.direction = altDir, !.progress = 100],
                   ret |-> TRUE]
        ELSE LET advanced == [aged EXCEPT
                                !.progress = aged.progress + aged.speed * delta * speedMultiplier]
             IN  [train |-> updateCarriagePositions(MoveLoop(advanced, g, size), g, size),
                  ret |-> TRUE]

\* updateTrain with the progress advanced while the train dwells
updateTrain_DwellAdvances(t, delta, speedMultiplier, g, size) ==
    LET aged == [t EXCEPT !.age = t.age + delta * speedMultiplier]
    IN  IF aged.age > aged.maxAge
        THEN [train |-> aged, ret |-> FALSE]
        ELSE IF aged.atStation
        THEN LET waited == [aged EXCEPT
                              !.stationWaitTimer = aged.stationWaitTimer - delta * speedMultiplier,
                              !.progress = Min(999, aged.progress + aged.speed * delta * speedMultiplier)]
             IN  [train |-> IF waited.stationWaitTimer <= 0
                            THEN [waited EXCEPT !.atStation = FALSE] ELSE waited,
                  ret |-> TRUE]
        ELSE IF /\ ~isRailTile(g, size, aged.tileX, aged.tileY)
                /\ ~isRailStationTile(g, size, aged.tileX, aged.tileY)
        THEN [train |-> aged, ret |-> FALSE]
        ELSE LET advanced == [aged EXCEPT
                                !.progress = aged.progress + aged.speed * delta * speedMultiplier]
             IN  [train |-> updateCarriagePositions(MoveLoop(advanced, g, size), g, size),
                  ret |-> TRUE]

\* the age advanced only in the calls that move the train
updateTrain_AgeWhenMoving(t, delta, speedMultiplier, g, size) ==
    IF t.atStation
    THEN LET waited == [t EXCEPT
                          !.stationWaitTimer = t.stationWaitTimer - delta * speedMultiplier]
         IN  [train |-> IF waited.stationWaitTimer <= 0
                        THEN [waited EXCEPT !.atStation = FALSE] ELSE waited,
              ret |-> TRUE]
    ELSE LET aged == [t EXCEPT !.age = t.age + delta * speedMultiplier]
         IN  IF aged.age > aged.maxAge
             THEN [train |-> aged, ret |-> FALSE]
             ELSE IF /\ ~isRailTile(g, size, aged.tileX, aged.tileY)
                     /\ ~isRailStationTile(g, size, aged.tileX, aged.tileY)
             THEN [train |-> aged, ret |-> FALSE]
             ELSE LET advanced == [aged EXCEPT
                                     !.progress = aged.progress
                                                      + aged.speed * delta * speedMultiplier]
                  IN  [train |-> updateCarriagePositions(MoveLoop(advanced, g, size), g, size),
                       ret |-> TRUE]

updateTrain(t, delta, speedMultiplier, g, size) ==
    LET aged == [t EXCEPT !.age = t.age + delta * speedMultiplier]
    IN  IF aged.age > aged.maxAge
        THEN [train |-> aged, ret |-> FALSE]
        ELSE IF aged.atStation
        THEN LET waited == [aged EXCEPT
                              !.stationWaitTimer = aged.stationWaitTimer - delta * speedMultiplier]
             IN  [train |-> IF waited.stationWaitTimer <= 0
                            THEN [waited EXCEPT !.atStation = FALSE] ELSE waited,
                  ret |-> TRUE]
        ELSE IF /\ ~isRailTile(g, size, aged.tileX, aged.tileY)
                /\ ~isRailStationTile(g, size, aged.tileX, aged.tileY)
        THEN [train |-> aged, ret |-> FALSE]
        ELSE LET advanced == [aged EXCEPT
                                !.progress = aged.progress + aged.speed * delta * speedMultiplier]
             IN  [train |-> updateCarriagePositions(MoveLoop(advanced, g, size), g, size),
                  ret |-> TRUE]

(***************************************************************************)
(* The tick driver and the bulldozer (callers of the train system)         *)
(***************************************************************************)

\* bounds of the model: spawns over one id generator, tiles bulldozed
MaxSpawns == 1
MaxEdits == 1

\* deltaTime in seconds and the speed multiplier of a tick; the frames of
\* the specification with the bulldozer are the slow ones
Deltas == {1, 4}
SlowDeltas == {4}
Multipliers == {1, 2}

\* a 4x4 grid whose border is a closed loop of 12 rail tiles
RingGrid ==
    [y \in Coords(4) |-> [x \in Coords(4) |->
        IF x \in {0, 3} \/ y \in {0, 3} THEN Rail ELSE Grass]]

\* the loop around a 2x2 station with origin (1,1)
RingStationGrid ==
    [y \in Coords(4) |-> [x \in Coords(4) |->
        IF x \in {0, 3} \/ y \in {0, 3} THEN Rail
        ELSE IF x = 1 /\ y = 1 THEN Station ELSE Empty]]

\* the loop cut open at (0,0): a line of 11 tiles with two dead ends
OpenRingGrid == Put(RingGrid, 0, 0, Grass)

\* a 5x5 loop of 16 rail tiles around a 2x2 station with origin (2,2): no
\* rail touches a side of the origin
WideStationGrid ==
    [y \in Coords(5) |-> [x \in Coords(5) |->
        IF x \in {0, 4} \/ y \in {0, 4} THEN Rail
        ELSE IF x = 2 /\ y = 2 THEN Station
        ELSE IF x \in {2, 3} /\ y \in {2, 3} THEN Empty ELSE Grass]]

\* nine rail tiles and a station
NineRailGrid ==
    Put(Put(Put(Put(RingGrid, 0, 0, Grass), 0, 1, Grass), 1, 0, Grass), 2, 2, Station)

\* the same with a tenth rail tile carried by a road
TenRailGrid == Put(NineRailGrid, 0, 0, RoadRail)

\* stations and no rail at all
NoRailGrid == Put(Put(Uniform(4, Empty), 1, 1, Station), 3, 0, Station)

\* a closed loop of 10 rail tiles round a 3 by 4 rectangle
TallLoopGrid ==
    [y \in Coords(4) |-> [x \in Coords(4) |->
        IF x \in {0, 2} \/ (x = 1 /\ y \in {0, 3}) THEN Rail ELSE Grass]]

TrainGrids ==
    {RingGrid, TallLoopGrid, RingStationGrid, OpenRingGrid, WideStationGrid,
     NineRailGrid, TenRailGrid, NoRailGrid}

\* grids of the specification with the bulldozer
EditGrids == {RingStationGrid, OpenRingGrid}

Init ==
    /\ grid \in TrainGrids
    /\ gridSize = SizeOf(grid)
    /\ train = NoTrain
    /\ trainIdRef = 0
    /\ edits = 0
    /\ call = NoCall

\* the driver asks for a train when it holds none
SpawnTrain ==
    /\ train = NoTrain
    /\ trainIdRef < MaxSpawns
    /\ \E outcome \in spawnTrain(grid, gridSize, trainIdRef) :
        /\ train' = outcome.train
        /\ trainIdRef' = outcome.trainIdRef
        /\ call' = [fn |-> "spawnTrain", ret |-> outcome.train,
                    station |-> outcome.station]
    /\ UNCHANGED <<grid, gridSize, edits>>

\* the last call asked the driver to remove the train
Expired == call.fn = "updateTrain" /\ call.ret = FALSE

\* one tick of the driver for the train it holds
Tick(deltas) ==
    /\ train # NoTrain
    /\ ~Expired
    /\ \E delta \in deltas, speedMultiplier \in Multipliers :
        LET result == updateTrain(train, delta, speedMultiplier, grid, gridSize)
        IN  /\ train' = result.train
            /\ call' = [fn |-> "updateTrain", delta |-> delta,
                        speedMultiplier |-> speedMultiplier, ret |-> result.ret]
    /\ UNCHANGED <<grid, gridSize, trainIdRef, edits>>

UpdateTrain == Tick(Deltas)

UpdateTrainSlow == Tick(SlowDeltas)

\* the driver drops a train whose update returned false
RemoveTrain ==
    /\ Expired
    /\ train' = NoTrain
    /\ call' = [fn |-> "removeTrain"]
    /\ UNCHANGED <<grid, gridSize, trainIdRef, edits>>

\* the tiles the bulldozer is sent to: the tile under the train's lead and
\* the tile one step ahead of it
BulldozeTargets ==
    IF train = NoTrain THEN {}
    ELSE {Point(train.tileX, train.tileY),
          Point(train.tileX + DIRECTION_META[train.direction].step.x,
                train.tileY + DIRECTION_META[train.direction].step.y)}

\* the bulldozer clears a tile that carries rail or a station
Bulldoze ==
    /\ edits < MaxEdits
    /\ \E target \in BulldozeTargets :
        /\ target.x \in Coords(gridSize) /\ target.y \in Coords(gridSize)
        /\ grid[target.y][target.x].type \in {"rail", "road", "rail_station", "empty"}
        /\ grid' = Put(grid, target.x, target.y, Grass)
    /\ edits' = edits + 1
    /\ call' = [fn |-> "bulldoze"]
    /\ UNCHANGED <<gridSize, train, trainIdRef>>

\* the train system on a grid nobody edits
Next ==
    \/ SpawnTrain
    \/ UpdateTrain
    \/ RemoveTrain

Spec == Init /\ [][Next]_vars

\* the train system while the bulldozer removes track
InitEdit ==
    /\ grid \in EditGrids
    /\ gridSize = SizeOf(grid)
    /\ train = NoTrain
    /\ trainIdRef = 0
    /\ edits = 0
    /\ call = NoCall

NextEdit ==
    \/ SpawnTrain
    \/ UpdateTrainSlow
    \/ RemoveTrain
    \/ Bulldoze

SpecEdit == InitEdit /\ [][NextEdit]_vars

\* the tick can be taken exactly when the driver holds a train whose last
\* update did not return false: these are the guards of Tick, and every tick
\* changes the train (its age grows by a positive delta)
TickEnabled == train # NoTrain /\ ~Expired

\* weak fairness of the tick, WF_vars(UpdateTrainSlow), with its ENABLED
\* written out as TickEnabled: the game loop calls updateTrain in every frame
\* for the train it holds
TickFairness == []<>(~TickEnabled) \/ []<><<UpdateTrainSlow>>_vars

\* the train system, with the bulldozer, under a driver that keeps ticking
SpecLive == InitEdit /\ [][NextEdit]_vars /\ TickFairness

(***************************************************************************)
(* The train system with trains that carry a long path history             *)
(***************************************************************************)

\* the length of the history of a train handed to updateTrain: a spawned
\* train does not live long enough to collect 80 entries (speed below 0.35
\* tiles a second, maxAge below 100 seconds), so the limit of updateTrain is
\* reached only by a train that starts with a history of this length
HistoryLength == 79

\* the loop of RingGrid walked from (0,0): west, south, east, north
RingWalk ==
    <<Point(0, 0), Point(0, 1), Point(0, 2), Point(0, 3), Point(1, 3), Point(2, 3),
      Point(3, 3), Point(3, 2), Point(3, 1), Point(3, 0), Point(2, 0), Point(1, 0)>>

RingWalkAt(k) == RingWalk[((k - 1) % Len(RingWalk)) + 1]

\* freight trains as created on the last tile of a walk of HistoryLength
\* tiles round the loop, with that walk as path and the carriages placed
\* along it
HistoryTrains ==
    LET lead == RingWalkAt(HistoryLength)
        ahead == RingWalkAt(HistoryLength + 1)
    IN  {updateCarriagePositions(
             [t EXCEPT !.path = [k \in 1 .. HistoryLength |-> RingWalkAt(k)],
                       !.pathIndex = HistoryLength - 1],
             RingGrid, SizeOf(RingGrid)) :
         t \in createFreightTrain(0, lead.x, lead.y,
                                  getDirectionToTile(lead.x, lead.y, ahead.x, ahead.y))}

InitHistory ==
    \/ Init
    \/ /\ grid = RingGrid
       /\ gridSize = SizeOf(grid)
       /\ train \in HistoryTrains
       /\ trainIdRef = 1
       /\ edits = 0
       /\ call = NoCall

SpecHistory == InitHistory /\ [][Next]_vars

(***************************************************************************)
(* Calls of updateCarriagePositions on trains of 2 to 10 carriages         *)
(***************************************************************************)

\* carriage counts, lead progress (thousandths of a tile) and lengths of the
\* path of the trains handed to updateCarriagePositions
FollowCounts == {2, 5, 10}
FollowProgress == {0, 275, 279, 280, 560, 990, 995, 999}
FollowPaths == 1 .. 4

\* a train on the loop of RingGrid after a walk of len tiles, with the given
\* number of carriages as created and the given lead progress
FollowTrain(numCarriages, progress, len) ==
    LET lead == RingWalkAt(len)
        ahead == RingWalkAt(len + 1)
        direction == getDirectionToTile(lead.x, lead.y, ahead.x, ahead.y)
    IN  [id |-> 0,
         type |-> "freight",
         carriages |-> Carriages(numCarriages, LOCOMOTIVE_COLORS[1], "freight_box",
                                 FREIGHT_COLORS[1], "#8B0000", lead.x, lead.y, direction),
         tileX |-> lead.x,
         tileY |-> lead.y,
         direction |-> direction,
         progress |-> progress,
         speed |-> 180,
         path |-> [k \in 1 .. len |-> RingWalkAt(k)],
         pathIndex |-> len - 1,
         age |-> 0,
         maxAge |-> TRAIN_MAX_AGE,
         color |-> LOCOMOTIVE_COLORS[1],
         atStation |-> FALSE,
         stationWaitTimer |-> 0]

InitFollow ==
    /\ grid = RingGrid
    /\ gridSize = SizeOf(grid)
    /\ train \in {FollowTrain(n, progress, len) :
                    n \in FollowCounts, progress \in FollowProgress, len \in FollowPaths}
    /\ trainIdRef = 1
    /\ edits = 0
    /\ call = NoCall

CallUpdateCarriagePositions ==
    /\ call = NoCall
    /\ train' = updateCarriagePositions(train, grid, gridSize)
    /\ call' = [fn |-> "updateCarriagePositions"]
    /\ UNCHANGED <<grid, gridSize, trainIdRef, edits>>

NextFollow ==
    \/ CallUpdateCarriagePositions
    \/ Return

SpecFollow == InitFollow /\ [][NextFollow]_vars

(***************************************************************************)
(* Repeated calls of spawnTrain over one id generator                      *)
(***************************************************************************)

\* calls of spawnTrain that return a train, over one generator
MaxIds == 3

\* two rows of five rail tiles and, out of their reach, a station with
\* origin (2,4): a spawn from the station fails, one from a rail tile succeeds
TwoRowGrid ==
    [y \in Coords(6) |-> [x \in Coords(6) |->
        IF x \in 0 .. 4 /\ y \in {0, 1} THEN Rail
        ELSE IF x = 2 /\ y = 4 THEN Station
        ELSE IF x \in {2, 3} /\ y \in {4, 5} THEN Empty ELSE Grass]]

SpawnGrids == {TwoRowGrid, RingStationGrid, NineRailGrid}

InitSpawn ==
    /\ grid \in SpawnGrids
    /\ gridSize = SizeOf(grid)
    /\ train = NoTrain
    /\ trainIdRef = 0
    /\ edits = 0
    /\ call = NoCall

\* the driver asks for one more train and keeps the last one it was given
SpawnNext ==
    /\ trainIdRef < MaxIds
    /\ \E outcome \in spawnTrain(grid, gridSize, trainIdRef) :
        /\ train' = IF outcome.train = NoTrain THEN train ELSE outcome.train
        /\ trainIdRef' = outcome.trainIdRef
        /\ call' = [fn |-> "spawnTrain", ret |-> outcome.train,
                    station |-> outcome.station]
    /\ UNCHANGED <<grid, gridSize, edits>>

NextSpawn == SpawnNext

SpecSpawn == InitSpawn /\ [][NextSpawn]_vars

(***************************************************************************)
(* The train system on a straight line of rail                             *)
(***************************************************************************)

\* a straight line of 10 rail tiles along y, and one along x
LineAlongY ==
    [y \in Coords(10) |-> [x \in Coords(10) |-> IF x = 0 THEN Rail ELSE Grass]]

LineAlongX ==
    [y \in Coords(10) |-> [x \in Coords(10) |-> IF y = 4 THEN Rail ELSE Grass]]

InitLine ==
    /\ grid \in {LineAlongY, LineAlongX}
    /\ gridSize = SizeOf(grid)
    /\ train = NoTrain
    /\ trainIdRef = 0
    /\ edits = 0
    /\ call = NoCall

SpecLine == InitLine /\ [][Next]_vars

(***************************************************************************)
(* The tiles each rail function indexes in the grid                        *)
(***************************************************************************)

\* what a read of grid[y][x] finds: the tile's type, "undefined" where the
\* grid holds no tile
TypeRead(g, size, x, y) ==
    IF x \in Coords(size) /\ y \in Coords(size) THEN g[y][x].type ELSE "undefined"

\* isRailTile: grid[y][x] behind the bounds check
isRailTileReads(size, x, y) ==
    IF x < 0 \/ y < 0 \/ x >= size \/ y >= size THEN {} ELSE {<<x, y>>}

\* the footprint probes read their neighbour whatever x and y are
isRailStationTileReads_Unguarded(g, size, x, y) ==
    IF x < 0 \/ y < 0 \/ x >= size \/ y >= size THEN {}
    ELSE {<<x, y>>} \cup
         IF g[y][x].type # "empty" THEN {}
         ELSE LET west == {<<x - 1, y>>}
                  north == {<<x, y - 1>>}
                  northwest == {<<x - 1, y - 1>>}
                  IsStation(cells) ==
                      \E c \in cells : TypeRead(g, size, c[1], c[2]) = "rail_station"
              IN  IF IsStation(west) THEN west
                  ELSE IF IsStation(north) THEN west \cup north
                  ELSE west \cup north \cup northwest

\* isRailStationTile: grid[y][x], then for an empty tile grid[y][x - 1] behind
\* x > 0, grid[y - 1][x] behind y > 0 and grid[y - 1][x - 1] behind both, up
\* to the first probe that finds the station
isRailStationTileReads(g, size, x, y) ==
    IF x < 0 \/ y < 0 \/ x >= size \/ y >= size THEN {}
    ELSE {<<x, y>>} \cup
         IF g[y][x].type # "empty" THEN {}
         ELSE LET west == IF x > 0 THEN {<<x - 1, y>>} ELSE {}
                  north == IF y > 0 THEN {<<x, y - 1>>} ELSE {}
                  northwest == IF x > 0 /\ y > 0 THEN {<<x - 1, y - 1>>} ELSE {}
                  IsStation(cells) ==
                      \E c \in cells : TypeRead(g, size, c[1], c[2]) = "rail_station"
              IN  IF IsStation(west) THEN west
                  ELSE IF IsStation(north) THEN west \cup north
                  ELSE west \cup north \cup northwest

\* hasRailAtPosition: grid[y][x] behind the bounds check, then isRailStationTile
\* unless the tile is rail
hasRailAtPositionReads(g, size, x, y) ==
    IF x < 0 \/ y < 0 \/ x >= size \/ y >= size THEN {}
    ELSE {<<x, y>>} \cup
         IF g[y][x].type = "rail" THEN {} ELSE isRailStationTileReads(g, size, x, y)

getAdjacentRailReads(g, size, x, y) ==
    hasRailAtPositionReads(g, size, x - 1, y)
        \cup hasRailAtPositionReads(g, size, x, y - 1)
        \cup hasRailAtPositionReads(g, size, x + 1, y)
        \cup hasRailAtPositionReads(g, size, x, y + 1)

\* the closure hasRailAt of getAdjacentRailForOverlay
hasRailAtReads(g, size, checkX, checkY) ==
    IF checkX < 0 \/ checkY < 0 \/ checkX >= size \/ checkY >= size THEN {}
    ELSE {<<checkX, checkY>>} \cup
         IF g[checkY][checkX].type = "rail" THEN {}
         ELSE isRailStationTileReads(g, size, checkX, checkY)

getAdjacentRailForOverlayReads(g, size, x, y) ==
    hasRailAtReads(g, size, x - 1, y)
        \cup hasRailAtReads(g, size, x, y - 1)
        \cup hasRailAtReads(g, size, x + 1, y)
        \cup hasRailAtReads(g, size, x, y + 1)

getRailDirectionOptionsReads(g, size, x, y) ==
    hasRailAtPositionReads(g, size, x - 1, y)
        \cup hasRailAtPositionReads(g, size, x, y - 1)
        \cup hasRailAtPositionReads(g, size, x + 1, y)
        \cup hasRailAtPositionReads(g, size, x, y + 1)

\* "!isRailTile(..) && !isRailStationTile(..)": the second call is made when
\* the first returns false
ValidTrackReads(g, size, x, y) ==
    isRailTileReads(size, x, y)
        \cup IF isRailTile(g, size, x, y) THEN {} ELSE isRailStationTileReads(g, size, x, y)

\* findPathOnRails: the start is never read; of every entry expanded the
\* neighbours that pass the bounds check are read (those already visited are
\* skipped by the code, so this is a superset of its reads). The entry that
\* matches the end is dequeued and not expanded.
findPathOnRailsReads(g, size, startX, startY, endX, endY) ==
    LET search == SearchOnRails(g, size, startX, startY, endX, endY)
        expanded == IF search.path = Null THEN Len(search.shifted)
                    ELSE Len(search.shifted) - 1
    IN  UNION {LET nx == search.shifted[k][1] + PathDirections[i].dx
                   ny == search.shifted[k][2] + PathDirections[i].dy
               IN  IF nx < 0 \/ ny < 0 \/ nx >= size \/ ny >= size THEN {}
                   ELSE ValidTrackReads(g, size, nx, ny) :
               k \in 1 .. expanded, i \in 1 .. Len(PathDirections)}

\* countRailTiles, findRailStations: the nested loops over 0 .. gridSize - 1
ScanReads(size) == {<<ScanOrder(size)[i].x, ScanOrder(size)[i].y>> : i \in 1 .. (size * size)}

\* findAdjacentRailToStation: isRailTile at the four sides, then isRailTile
\* and getRailDirectionOptions at the eight further offsets (all of them:
\* a superset of the reads up to the first spot returned)
findAdjacentRailToStationReads(g, size, stationX, stationY) ==
    UNION {isRailTileReads(size, stationX + StationSides[i].dx, stationY + StationSides[i].dy) :
           i \in 1 .. Len(StationSides)}
        \cup UNION {LET nx == stationX + StationDiagonals[i].dx
                        ny == stationY + StationDiagonals[i].dy
                    IN  isRailTileReads(size, nx, ny)
                            \cup IF isRailTile(g, size, nx, ny)
                                 THEN getRailDirectionOptionsReads(g, size, nx, ny) ELSE {} :
                    i \in 1 .. Len(StationDiagonals)}

\* findRandomRailTile: isRailTile on every tile of the loops and
\* getRailDirectionOptions on the rail tiles
findRandomRailTileReads(g, size) ==
    UNION {isRailTileReads(size, c[1], c[2])
               \cup IF isRailTile(g, size, c[1], c[2])
                    THEN getRailDirectionOptionsReads(g, size, c[1], c[2]) ELSE {} :
           c \in ScanReads(size)}

\* spawnTrain: the count, and from MIN_RAIL_TILES_FOR_TRAINS tiles on the
\* station scan and both ways of choosing the spawn tile (a superset over
\* the random draws)
spawnTrainReads(g, size) ==
    ScanReads(size) \cup
    IF countRailTiles(g, size) < MIN_RAIL_TILES_FOR_TRAINS THEN {}
    ELSE LET stations == findRailStations(g, size)
         IN  ScanReads(size)
                 \cup UNION {findAdjacentRailToStationReads(g, size, stations[i].x, stations[i].y) :
                             i \in 1 .. Len(stations)}
                 \cup findRandomRailTileReads(g, size)

\* updateTrain from train t to train moved: nothing is read when the train
\* expires or dwells; otherwise the lead tile is tested, and on every tile
\* the lead stands on during the call the tile ahead is tested, the station
\* test is made and pickNextDirection lists the options (for the tile ahead
\* all four neighbours are taken: a superset over the headings)
updateTrainReads(t, moved, g, size) ==
    IF moved.age > moved.maxAge \/ t.atStation THEN {}
    ELSE LET tiles == {<<t.tileX, t.tileY>>}
                        \cup {<<moved.path[k].x, moved.path[k].y>> :
                                 k \in (Len(moved.path) - (moved.pathIndex - t.pathIndex) + 1)
                                         .. Len(moved.path)}
         IN  UNION {ValidTrackReads(g, size, c[1], c[2])
                        \cup isRailStationTileReads(g, size, c[1], c[2])
                        \cup getRailDirectionOptionsReads(g, size, c[1], c[2])
                        \cup UNION {ValidTrackReads(g, size,
                                                    c[1] + DIRECTION_META[d].step.x,
                                                    c[2] + DIRECTION_META[d].step.y) :
                                    d \in DirSet} :
                    c \in tiles}

(***************************************************************************)
(* Calls of every rail function, for the tiles they read                   *)
(***************************************************************************)

\* a loop round a 2x2 station in the grid's corner: origin (0,0), and a spur
\* of rail from the loop to the station's footprint
BorderStationGrid ==
    [y \in Coords(5) |-> [x \in Coords(5) |->
        IF x = 0 /\ y = 0 THEN Station
        ELSE IF x \in {0, 1} /\ y \in {0, 1} THEN Empty
        ELSE IF x \in {2, 4} /\ y \in 2 .. 4 THEN Rail
        ELSE IF x = 3 /\ y \in {2, 4} THEN Rail
        ELSE IF x = 2 /\ y \in {0, 1} THEN Rail
        ELSE Grass]]

ReadGrids ==
    AllGrids(2, {Grass, Rail, Empty, Station})
        \cup {RingStationGrid, OpenRingGrid, BorderStationGrid}

InitReads ==
    /\ grid \in ReadGrids
    /\ gridSize = SizeOf(grid)
    /\ train = NoTrain
    /\ trainIdRef = 0
    /\ edits = 0
    /\ call = NoCall

CallGetRailDirectionOptions ==
    \E x \in Args(gridSize), y \in Args(gridSize) :
        /\ call = NoCall
        /\ call' = [fn |-> "getRailDirectionOptions", x |-> x, y |-> y,
                    ret |-> getRailDirectionOptions(grid, gridSize, x, y)]
        /\ UNCHANGED <<grid, gridSize, driver>>

\* the next pure call starts once the driver holds no train
ReturnIdle == train = NoTrain /\ Return

NextReads ==
    \/ CallIsRailTile
    \/ CallIsRailStationTile
    \/ CallGetAdjacentRail
    \/ CallGetAdjacentRailForOverlay
    \/ CallGetRailDirectionOptions
    \/ CallFindPathOnRails
    \/ ReturnIdle
    \/ SpawnTrain
    \/ UpdateTrainSlow
    \/ RemoveTrain

SpecReads == InitReads /\ [][NextReads]_vars

(***************************************************************************)
(* Calls of pickNextDirection on arbitrary grids, tiles and headings       *)
(***************************************************************************)

PickGrids == AllGrids(3, {Grass, Rail}) \cup {RingStationGrid}

InitPick ==
    /\ grid \in PickGrids
    /\ gridSize = SizeOf(grid)
    /\ train = NoTrain
    /\ trainIdRef = 0
    /\ edits = 0
    /\ call = NoCall

CallPickNextDirection ==
    /\ call = NoCall
    /\ \E x \in Args(gridSize), y \in Args(gridSize), previousDirection \in DirSet :
        call' = [fn |-> "pickNextDirection", previousDirection |-> previousDirection,
                 x |-> x, y |-> y,
                 ret |-> pickNextDirection(previousDirection, grid, gridSize, x, y)]
    /\ UNCHANGED <<grid, gridSize, driver>>

NextPick ==
    \/ CallPickNextDirection
    \/ Return

SpecPick == InitPick /\ [][NextPick]_vars

(***************************************************************************)
(* Properties of the oracle and the classifier (SpecOracle)                *)
(***************************************************************************)

InGrid(x, y) == x \in Coords(gridSize) /\ y \in Coords(gridSize)

OppositeOf == [north |-> "south", east |-> "west", south |-> "north", west |-> "east"]
JunctionMissing == [north |-> "junction_t_n", east |-> "junction_t_e",
                    south |-> "junction_t_s", west |-> "junction_t_w"]
TerminusFacing == [north |-> "terminus_n", east |-> "terminus_e",
                   south |-> "terminus_s", west |-> "terminus_w"]

\* the decision table, by the set of live connections
TableTrackType(c) ==
    LET live == {d \in DirSet : c[d]}
        n == Cardinality(live)
    IN  CASE n = 4 -> "junction_cross"
          [] n = 3 -> JunctionMissing[CHOOSE d \in DirSet : d \notin live]
          [] live = {"north", "south"} -> "straight_ns"
          [] live = {"east", "west"} -> "straight_ew"
          [] live = {"north", "east"} -> "curve_ne"
          [] live = {"north", "west"} -> "curve_nw"
          [] live = {"south", "east"} -> "curve_se"
          [] live = {"south", "west"} -> "curve_sw"
          [] n = 1 -> TerminusFacing[OppositeOf[CHOOSE d \in live : TRUE]]
          [] n = 0 -> "single"

\* C1: for each of the 16 RailConnection values getTrackType returns the
\* variant of the decision table: cross for four connections, the T named for
\* the missing direction for three, straight or curve for two, the terminus
\* facing away from the single connection for one, single for none.
C1_TrackTypeTable ==
    call.fn = "getTrackType" => call.ret = TableTrackType(call.connections)

\* C1 witness: a single live connection to the north was classified terminus_s
C1_Witness ==
    /\ call.fn = "getTrackType"
    /\ call.connections = [north |-> TRUE, east |-> FALSE, south |-> FALSE, west |-> FALSE]
    /\ call.ret = "terminus_s"

\* C2: isRailTile is true exactly when (x,y) is inside the grid and the tile
\* is rail, or road with the rail overlay; stations, empty tiles and roads
\* without overlay give false.
C2_IsRailTile ==
    call.fn = "isRailTile" =>
        (call.ret <=>
            /\ InGrid(call.x, call.y)
            /\ grid[call.y][call.x] \in {t \in TileKinds :
                   t.type = "rail" \/ (t.type = "road" /\ t.hasRailOverlay)})

\* C2 witness: a road tile with overlay was accepted
C2_Witness ==
    /\ call.fn = "isRailTile"
    /\ InGrid(call.x, call.y)
    /\ grid[call.y][call.x] = RoadRail
    /\ call.ret = TRUE

\* the type of the tile at (x,y), "off" outside the grid
TypeAt(x, y) == IF InGrid(x, y) THEN grid[y][x].type ELSE "off"

\* C3: isRailStationTile is true exactly when (x,y) is in bounds and the tile
\* is a rail_station tile, or it is empty and one of (x-1,y), (x,y-1),
\* (x-1,y-1) is a rail_station tile; on the grid with a station at (3,3) and
\* an empty footprint it is true for (3,3),(4,3),(3,4),(4,4) and false for
\* (2,3) and (5,4).
C3_IsRailStationTile ==
    call.fn = "isRailStationTile" =>
        /\ call.ret <=>
              \/ TypeAt(call.x, call.y) = "rail_station"
              \/ /\ TypeAt(call.x, call.y) = "empty"
                 /\ \E o \in {<<1, 0>>, <<0, 1>>, <<1, 1>>} :
                        TypeAt(call.x - o[1], call.y - o[2]) = "rail_station"
        /\ grid = StationGrid =>
              /\ <<call.x, call.y>> \in {<<3, 3>>, <<4, 3>>, <<3, 4>>, <<4, 4>>} => call.ret
              /\ <<call.x, call.y>> \in {<<2, 3>>, <<5, 4>>} => ~call.ret

\* C3 witness: the south-east footprint tile of the station at (3,3)
C3_Witness ==
    /\ call.fn = "isRailStationTile"
    /\ grid = StationGrid
    /\ call.x = 4 /\ call.y = 4
    /\ call.ret = TRUE

\* the neighbour of (x,y) in direction d under the axis convention
\* north = x-1, east = y-1, south = x+1, west = y+1
NeighbourX(x, d) == CASE d = "north" -> x - 1 [] d = "south" -> x + 1 [] OTHER -> x
NeighbourY(y, d) == CASE d = "east" -> y - 1 [] d = "west" -> y + 1 [] OTHER -> y

\* rail, road with overlay, a station tile or an empty tile of a station footprint
CarriesRail(x, y) ==
    /\ InGrid(x, y)
    /\ \/ TypeAt(x, y) \in {"rail", "rail_station"}
       \/ TypeAt(x, y) = "road" /\ grid[y][x].hasRailOverlay
       \/ /\ TypeAt(x, y) = "empty"
          /\ \E o \in {<<1, 0>>, <<0, 1>>, <<1, 1>>} :
                 TypeAt(x - o[1], y - o[2]) = "rail_station"

\* C4: each of the four booleans of getAdjacentRail is true exactly when the
\* neighbour north=(x-1,y), east=(x,y-1), south=(x+1,y), west=(x,y+1) is
\* inside the grid and carries rail, overlay or station; an off-grid
\* neighbour is reported absent.
C4_GetAdjacentRail ==
    call.fn = "getAdjacentRail" =>
        \A d \in DirSet :
            call.ret[d] <=> CarriesRail(NeighbourX(call.x, d), NeighbourY(call.y, d))

\* C4 witness: a tile on the grid's edge at x = 0 with rail to its south
C4_Witness ==
    /\ call.fn = "getAdjacentRail"
    /\ call.x = 0 /\ call.y \in Coords(gridSize)
    /\ call.ret.north = FALSE
    /\ call.ret.south = TRUE

\* C5 as stated: the overlay oracle counts a neighbouring rail_station tile
\* where the base oracle does not, so on such a neighbour the two differ.
C5_OraclesDiffer ==
    call.fn = "getAdjacentRailForOverlay" =>
        \A d \in DirSet :
            TypeAt(NeighbourX(call.x, d), NeighbourY(call.y, d)) = "rail_station"
                => call.ret[d] /\ ~call.base[d]

\* C5 amended: both oracles count a neighbouring rail_station tile as
\* occupied, and they return the same RailConnection for every grid and tile.
C5_OraclesAgree ==
    call.fn = "getAdjacentRailForOverlay" =>
        /\ call.ret = call.base
        /\ \A d \in DirSet :
              TypeAt(NeighbourX(call.x, d), NeighbourY(call.y, d)) = "rail_station"
                  => call.ret[d] /\ call.base[d]

\* C5 witness: a rail_station tile to the north, seen by both oracles
C5_Witness ==
    /\ call.fn = "getAdjacentRailForOverlay"
    /\ TypeAt(call.x - 1, call.y) = "rail_station"
    /\ call.ret.north /\ call.base.north

(***************************************************************************)
(* Properties of the pathfinder (SpecPath)                                 *)
(***************************************************************************)

Cells == Coords(gridSize) \X Coords(gridSize)

\* a cell a path may step onto: an in-bounds rail-or-station tile
Passable(c) == CarriesRail(c[1], c[2])

Adjacent4(a, b) ==
    (a[1] - b[1]) * (a[1] - b[1]) + (a[2] - b[2]) * (a[2] - b[2]) = 1

\* the number of steps of a shortest walk from the frontier to the target
\* over passable cells, -1 when there is none
RECURSIVE Distance(_, _, _, _)
Distance(frontier, seen, target, k) ==
    IF target \in frontier THEN k
    ELSE IF frontier = {} THEN -1
    ELSE LET next == {c \in Cells : /\ Passable(c)
                                    /\ c \notin seen
                                    /\ \E f \in frontier : Adjacent4(f, c)}
         IN  Distance(next, seen \cup next, target, k + 1)

\* C6: findPathOnRails returns null exactly when the end is unreachable from
\* the start by 4-neighbour steps onto in-bounds rail-or-station tiles;
\* otherwise the path starts at the start, ends at the end, moves by
\* 4-adjacent steps onto rail-or-station tiles, and no shorter one exists.
C6_ShortestPath ==
    call.fn = "findPathOnRails" =>
        LET start == <<call.startX, call.startY>>
            end == <<call.endX, call.endY>>
            d == Distance({start}, {start}, end, 0)
            p == call.ret
        IN  /\ (p = Null) <=> (d = -1)
            /\ p # Null =>
                  /\ p[1] = Point(start[1], start[2])
                  /\ p[Len(p)] = Point(end[1], end[2])
                  /\ \A i \in 1 .. (Len(p) - 1) :
                        /\ Adjacent4(<<p[i].x, p[i].y>>, <<p[i + 1].x, p[i + 1].y>>)
                        /\ Passable(<<p[i + 1].x, p[i + 1].y>>)
                  /\ Len(p) = d + 1

\* C6 witness: a path of four steps was returned
C6_Witness ==
    /\ call.fn = "findPathOnRails"
    /\ Len(call.ret) = 5

\* C6 witness of the null case: the end carries rail and is cut off
C6_WitnessNull ==
    /\ call.fn = "findPathOnRails"
    /\ call.ret = Null
    /\ Passable(<<call.endX, call.endY>>)

\* position of the step from p to c in the order north, east, south, west
StepRank(p, c) ==
    CASE c[1] = p[1] - 1 -> 1
      [] c[2] = p[2] - 1 -> 2
      [] c[1] = p[1] + 1 -> 3
      [] c[2] = p[2] + 1 -> 4

\* the first cell of the layer, in its order, that touches c
FirstParent(order, c) ==
    CHOOSE i \in 1 .. Len(order) :
        /\ Adjacent4(order[i], c)
        /\ \A j \in 1 .. (i - 1) : ~Adjacent4(order[j], c)

RECURSIVE InOrder(_, _)
InOrder(set, rank) ==
    IF set = {} THEN <<>>
    ELSE LET first == CHOOSE c \in set : \A o \in set : rank[c] <= rank[o]
         IN  <<first>> \o InOrder(set \ {first}, rank)

\* breadth-first search by layers: a cell belongs to the first cell of the
\* previous layer that touches it, and a layer is ordered by the owners'
\* order and then by north, east, south, west
RECURSIVE LayerSearch(_, _, _, _)
LayerSearch(order, seen, pathOf, target) ==
    IF order = <<>> THEN Null
    ELSE IF \E i \in 1 .. Len(order) : order[i] = target THEN pathOf[target]
    ELSE LET found == {c \in Cells : /\ Passable(c)
                                     /\ c \notin seen
                                     /\ \E i \in 1 .. Len(order) : Adjacent4(order[i], c)}
             rank == [c \in found |->
                         4 * FirstParent(order, c) + StepRank(order[FirstParent(order, c)], c)]
             paths == [c \in found |->
                         Append(pathOf[order[FirstParent(order, c)]], Point(c[1], c[2]))]
         IN  LayerSearch(InOrder(found, rank), seen \cup found, paths, target)

ReferencePath(start, end) ==
    LayerSearch(<<start>>, {start}, [c \in {start} |-> <<Point(start[1], start[2])>>], end)

\* C7: the result of findPathOnRails is that of a first-in-first-out
\* breadth-first search that expands north (x-1), east (y-1), south (x+1),
\* west (y+1) in this order; on the grid whose only rail is the line from
\* (0,0) to (0,4) the path is exactly (0,0),(0,1),(0,2),(0,3),(0,4).
C7_FixedOrder ==
    call.fn = "findPathOnRails" =>
        /\ call.ret = ReferencePath(<<call.startX, call.startY>>, <<call.endX, call.endY>>)
        /\ (grid = LineGrid /\ call.startX = 0 /\ call.startY = 0
                            /\ call.endX = 0 /\ call.endY = 4)
              => call.ret = <<Point(0, 0), Point(0, 1), Point(0, 2), Point(0, 3), Point(0, 4)>>

\* C7 witness: two shortest paths lead from (1,1) to (0,0) on the 3x3 rail
\* grid; the one through the north neighbour (0,1) was returned
C7_Witness ==
    /\ call.fn = "findPathOnRails"
    /\ grid = Uniform(3, Rail)
    /\ call.startX = 1 /\ call.startY = 1 /\ call.endX = 0 /\ call.endY = 0
    /\ call.ret = <<Point(1, 1), Point(0, 1), Point(0, 0)>>

\* C7 witness of the scenario: the straight line was walked end to end
C7_WitnessLine ==
    /\ call.fn = "findPathOnRails"
    /\ grid = LineGrid
    /\ call.startX = 0 /\ call.startY = 0 /\ call.endX = 0 /\ call.endY = 4
    /\ Len(call.ret) = 5

(***************************************************************************)
(* Properties of spawning (Spec)                                           *)
(***************************************************************************)

\* rail tiles and road tiles with the rail overlay; stations are not counted
RailTileCount ==
    Cardinality({c \in Cells : \/ TypeAt(c[1], c[2]) = "rail"
                               \/ /\ TypeAt(c[1], c[2]) = "road"
                                  /\ grid[c[2]][c[1]].hasRailOverlay})

StationCount == Cardinality({c \in Cells : TypeAt(c[1], c[2]) = "rail_station"})

\* C8: whenever the grid holds fewer than 10 rail tiles (rail, and road with
\* overlay; stations not counted) spawnTrain returns null for every outcome
\* of its random choices, also when stations exist.
C8_TooFewRailTiles ==
    (call.fn = "spawnTrain" /\ RailTileCount < 10) => call.ret = NoTrain

\* C8 witness: nine rail tiles and a station, and the spawn was refused
C8_Witness ==
    /\ call.fn = "spawnTrain"
    /\ RailTileCount = 9
    /\ StationCount > 0
    /\ call.ret = NoTrain

\* C8 witness: stations and no rail tile at all
C8_WitnessNoRail ==
    /\ call.fn = "spawnTrain"
    /\ RailTileCount = 0
    /\ StationCount > 0
    /\ call.ret = NoTrain

\* the last call spawned a train from a station
SpawnedFromStation ==
    /\ call.fn = "spawnTrain"
    /\ call.ret # NoTrain
    /\ call.station # NullResult

\* the tile one step from the spawn tile in the train's initial heading
AheadX(t) == NeighbourX(t.tileX, t.direction)
AheadY(t) == NeighbourY(t.tileY, t.direction)

\* C9 as stated: a train spawned from a station heads away from it: the tile
\* one step ahead of the spawn tile is not a tile of that station's 2x2
\* footprint.
C9_HeadsAway ==
    SpawnedFromStation =>
        ~(/\ AheadX(call.ret) \in {call.station.x, call.station.x + 1}
          /\ AheadY(call.ret) \in {call.station.y, call.station.y + 1})

\* C9 amended: a train spawned from a station is placed on a rail tile at one
\* of the 4 orthogonal or 8 diagonal and skip-2 offsets from the station's
\* origin; on an orthogonal neighbour its heading points at the station (the
\* tile one step ahead is the station's origin), on any other offset the
\* heading is one of the spawn tile's live connections.
C9_HeadsToStation ==
    SpawnedFromStation =>
        LET t == call.ret
            dx == t.tileX - call.station.x
            dy == t.tileY - call.station.y
        IN  /\ TypeAt(t.tileX, t.tileY) \in {"rail", "road"}
            /\ \/ /\ dx * dx + dy * dy = 1
                  /\ AheadX(t) = call.station.x
                  /\ AheadY(t) = call.station.y
               \/ /\ <<dx * dx, dy * dy>> \in {<<1, 1>>, <<4, 0>>, <<0, 4>>}
                  /\ CarriesRail(AheadX(t), AheadY(t))

\* C9 witness: spawned beside the origin, heading into it
C9_Witness ==
    /\ SpawnedFromStation
    /\ AheadX(call.ret) = call.station.x
    /\ AheadY(call.ret) = call.station.y

\* C9 witness: spawned two tiles from the origin
C9_WitnessSkip ==
    /\ SpawnedFromStation
    /\ call.ret.tileX = call.station.x + 2

(***************************************************************************)
(* Properties of updateTrain (SpecEdit)                                    *)
(***************************************************************************)

\* C10: updateTrain returns false exactly when the age, after adding
\* delta x speedMultiplier, exceeds maxAge (whatever else holds), or the
\* train is not dwelling and its lead tile is neither rail nor station; in
\* every other case it returns true.
C10_RemovalCases ==
    [][call'.fn = "updateTrain" =>
          LET dt == call'.delta * call'.speedMultiplier
              expired == train.age + dt > train.maxAge
              lost == ~train.atStation /\ ~CarriesRail(train.tileX, train.tileY)
          IN  /\ call'.ret \in BOOLEAN
              /\ call'.ret = FALSE <=> (expired \/ lost)]_vars

\* C10 witness: removal was requested for a train that had not aged out
C10_Witness ==
    /\ call.fn = "updateTrain"
    /\ call.ret = FALSE
    /\ train.age <= train.maxAge

\* C10 witness: a train that aged out while dwelling at a station
C10_WitnessExpired ==
    /\ call.fn = "updateTrain"
    /\ call.ret = FALSE
    /\ train.age > train.maxAge
    /\ train.atStation

\* C10 witness: the tile ahead was not rail, and the train stayed alive
C10_WitnessBounce ==
    /\ call.fn = "updateTrain"
    /\ call.ret = TRUE
    /\ train.progress \in {100, 500}
    /\ edits > 0

(***************************************************************************)
(* Properties of a train on edited track (SpecEdit)                        *)
(***************************************************************************)

\* the tile has a neighbour that carries rail
HasLiveConnection(x, y) ==
    \E d \in DirSet : CarriesRail(NeighbourX(x, d), NeighbourY(y, d))

\* the call of this step does not age the train out
NotExpiring == train.age + call'.delta * call'.speedMultiplier <= train.maxAge

\* the train stands, not dwelling, on a tile that no longer carries rail
LeadTileLost == ~train.atStation /\ ~CarriesRail(train.tileX, train.tileY)

\* C11 as stated: a train whose lead tile stopped being valid rail is not
\* removed at once; updateTrain requests removal only if no alternative
\* heading exists at that tile after a reversal attempt.
C11_ReversalBeforeRemoval ==
    [][(call'.fn = "updateTrain" /\ NotExpiring /\ LeadTileLost
            /\ HasLiveConnection(train.tileX, train.tileY))
          => call'.ret = TRUE]_vars

\* C11 amended: a train that is not dwelling and whose lead tile stopped
\* being valid rail or station is removed at once: the call returns false
\* and changes nothing but the age, no reversal is attempted.  A change of
\* heading is attempted only when the tile ahead is invalid as progress
\* reaches 1 on a valid lead tile, and that call never requests removal.
C11_RemovedAtOnce ==
    [][call'.fn = "updateTrain" /\ NotExpiring =>
          LET dt == call'.delta * call'.speedMultiplier
          IN  /\ LeadTileLost =>
                    /\ call'.ret = FALSE
                    /\ train' = [train EXCEPT !.age = train.age + dt]
              /\ (/\ ~train.atStation
                  /\ CarriesRail(train.tileX, train.tileY)
                  /\ ~CarriesRail(AheadX(train), AheadY(train))
                  /\ train.progress + train.speed * dt >= PROGRESS_ONE) =>
                    /\ call'.ret = TRUE
                    /\ train'.tileX = train.tileX /\ train'.tileY = train.tileY
                    /\ train'.direction # train.direction
                    /\ train'.progress \in {100, 500}]_vars

\* C11 witness: the train was given up on a tile that still had a live
\* connection, its heading untouched
C11_Witness ==
    /\ call.fn = "updateTrain"
    /\ call.ret = FALSE
    /\ train.age <= train.maxAge
    /\ ~CarriesRail(train.tileX, train.tileY)
    /\ HasLiveConnection(train.tileX, train.tileY)

(***************************************************************************)
(* Properties of the station stop (Spec)                                   *)
(***************************************************************************)

\* C12: a call of updateTrain on a train dwelling at a station, whose age
\* does not expire in the call, advances the age, decreases the dwell timer
\* by delta x speedMultiplier, clears atStation when the timer reaches 0 or
\* below, returns true, and leaves lead tile, heading, progress, path
\* history, path index and every carriage unchanged.
C12_DwellFrame ==
    [][(call'.fn = "updateTrain" /\ train.atStation /\ NotExpiring) =>
          LET dt == call'.delta * call'.speedMultiplier
              timer == train.stationWaitTimer - dt
          IN  /\ call'.ret = TRUE
              /\ train'.age = train.age + dt
              /\ train'.stationWaitTimer = timer
              /\ train'.atStation = (timer > 0)
              /\ train'.tileX = train.tileX /\ train'.tileY = train.tileY
              /\ train'.direction = train.direction
              /\ train'.progress = train.progress
              /\ train'.path = train.path
              /\ train'.pathIndex = train.pathIndex
              /\ train'.carriages = train.carriages]_vars

\* C12 witness: a dwell timer that ran down by one second and still runs
C12_Witness ==
    /\ call.fn = "updateTrain"
    /\ call.ret = TRUE
    /\ train.atStation
    /\ train.stationWaitTimer = 1

\* C12 witness: a dwell that a call has ended
C12_WitnessCleared ==
    /\ call.fn = "updateTrain"
    /\ call.ret = TRUE
    /\ train.type = "passenger"
    /\ ~train.atStation
    /\ train.stationWaitTimer <= 0
    /\ train.path[Len(train.path)] = Point(train.tileX, train.tileY)
    /\ TypeAt(train.tileX, train.tileY) = "rail_station"

\* a tile of a station's 2x2 footprint: the origin, or an empty tile with
\* the origin to its west, north or north-west
OnStation(x, y) ==
    \/ TypeAt(x, y) = "rail_station"
    \/ /\ TypeAt(x, y) = "empty"
       /\ \/ TypeAt(x - 1, y) = "rail_station"
          \/ TypeAt(x, y - 1) = "rail_station"
          \/ TypeAt(x - 1, y - 1) = "rail_station"

\* the tiles the lead moved onto in this step: the entries added to the path
EnteredTiles ==
    {train'.path[k] : k \in (Len(train.path) + 1) .. Len(train'.path)}

\* C13: when a passenger train's lead moves onto a station tile updateTrain
\* sets atStation and sets the dwell timer to 2.0; a freight train never
\* dwells: atStation is false for it in every state from its spawn on.
C13_StationStop ==
    [][/\ train'.type = "freight" => ~train'.atStation
       /\ (/\ call'.fn = "updateTrain"
           /\ train.type = "passenger"
           /\ \E p \in EnteredTiles : OnStation(p.x, p.y)) =>
                /\ train'.atStation
                /\ train'.stationWaitTimer = STATION_STOP_DURATION]_vars

\* C13 witness: a passenger train that has just stopped at a station
C13_Witness ==
    /\ call.fn = "updateTrain"
    /\ train.type = "passenger"
    /\ OnStation(train.tileX, train.tileY)
    /\ train.atStation
    /\ train.stationWaitTimer = STATION_STOP_DURATION

\* C13 witness: a freight train crossing a station
C13_WitnessFreight ==
    /\ call.fn = "updateTrain"
    /\ train.type = "freight"
    /\ OnStation(train.tileX, train.tileY)
    /\ ~train.atStation

\* the lead tile has exactly one neighbour that carries rail
OnTerminus(x, y) ==
    Cardinality({d \in DirSet : CarriesRail(NeighbourX(x, d), NeighbourY(y, d))}) = 1

\* C14: when a train's progress reaches 1 on a terminus tile and the tile
\* ahead is not valid rail, updateTrain reverses the heading, sets progress
\* to 0.5, leaves the lead tile unchanged and returns true.
C14_TerminusBounce ==
    [][(/\ call'.fn = "updateTrain"
        /\ NotExpiring
        /\ ~train.atStation
        /\ CarriesRail(train.tileX, train.tileY)
        /\ OnTerminus(train.tileX, train.tileY)
        /\ ~CarriesRail(AheadX(train), AheadY(train))
        /\ train.progress + train.speed * call'.delta * call'.speedMultiplier
              >= PROGRESS_ONE) =>
            /\ call'.ret = TRUE
            /\ train'.direction = OppositeOf[train.direction]
            /\ train'.progress = 500
            /\ train'.tileX = train.tileX /\ train'.tileY = train.tileY]_vars

(***************************************************************************)
(* Properties of pickNextDirection (SpecPick)                              *)
(***************************************************************************)

\* the heading d at the tile of the last call leads to a tile carrying rail
Live(d) == CarriesRail(NeighbourX(call.x, d), NeighbourY(call.y, d))

LiveCount == Cardinality({d \in DirSet : Live(d)})

\* the first live heading, in the order north, east, south, west, that is
\* not the reverse of the previous heading
FirstTurn ==
    LET turns == SelectSeq(Directions,
                           LAMBDA d : Live(d) /\ d # OppositeOf[call.previousDirection])
    IN  turns[1]

\* C15: at a T-junction or full-crossing tile pickNextDirection returns the
\* previous heading whenever that heading is a live connection, otherwise
\* the first live connection in the order north, east, south, west that is
\* not the reverse of the previous heading.
C15_JunctionPolicy ==
    (call.fn = "pickNextDirection" /\ LiveCount >= 3) =>
        call.ret = IF Live(call.previousDirection)
                   THEN call.previousDirection ELSE FirstTurn

\* C15 witness: the train enters a T-junction from its branch and is turned
\* onto the main line
C15_Witness ==
    /\ call.fn = "pickNextDirection"
    /\ LiveCount = 3
    /\ ~Live(call.previousDirection)
    /\ call.ret \notin {call.previousDirection, OppositeOf[call.previousDirection]}

\* C15 witness: straight through a full crossing
C15_WitnessCross ==
    /\ call.fn = "pickNextDirection"
    /\ LiveCount = 4
    /\ call.ret = call.previousDirection

\* C16: pickNextDirection never returns the reverse of the previous heading
\* unless that is the tile's only option: if the tile has a live connection
\* other than the reverse one, the returned heading is not the reverse.
C16_NoBacktrack ==
    (/\ call.fn = "pickNextDirection"
     /\ \E d \in DirSet : Live(d) /\ d # OppositeOf[call.previousDirection]) =>
        call.ret # OppositeOf[call.previousDirection]

(***************************************************************************)
(* Properties of the path history (SpecHistory)                            *)
(***************************************************************************)

\* the path of the train is a walk that ends under its lead
PathInvariant ==
    train # NoTrain =>
        /\ Len(train.path) \in 1 .. PATH_LIMIT
        /\ train.pathIndex = Len(train.path) - 1
        /\ train.path[Len(train.path)] = Point(train.tileX, train.tileY)
        /\ \A k \in 1 .. (Len(train.path) - 1) :
              Adjacent4(<<train.path[k].x, train.path[k].y>>,
                        <<train.path[k + 1].x, train.path[k + 1].y>>)

\* a call of updateTrain appends the tiles moved onto and drops as many of
\* the oldest entries as exceed the limit, the index following
PathAppended ==
    call'.fn = "updateTrain" =>
        \E moved \in 0 .. 3 :
            LET old == train.path
                new == train'.path
                dropped == Max(0, Len(old) + moved - PATH_LIMIT)
            IN  /\ Len(new) = Len(old) + moved - dropped
                /\ SubSeq(new, 1, Len(old) - dropped) = SubSeq(old, dropped + 1, Len(old))
                /\ train'.pathIndex = train.pathIndex + moved - dropped

\* C17: the path history holds between 1 and 80 entries, pathIndex equals
\* the path length minus 1, the last entry is the lead tile and consecutive
\* entries are 4-adjacent tiles; when an 81st entry is appended the oldest
\* one is dropped and the index is decremented.
C17_PathHistory == []PathInvariant /\ [][PathAppended]_vars

\* C17 witness: a full history whose train has moved on by two tiles or
\* more, so that an 81st entry was appended and the oldest dropped
C17_Witness ==
    /\ call.fn = "updateTrain"
    /\ Len(train.path) = PATH_LIMIT
    /\ train.pathIndex = PATH_LIMIT - 1
    /\ train.age * train.speed >= 3 * PROGRESS_ONE

\* C17 witness: the history of a spawned train growing
C17_WitnessSpawned ==
    /\ call.fn = "updateTrain"
    /\ trainIdRef = 1
    /\ Len(train.path) \in 3 .. (HistoryLength - 1)

(***************************************************************************)
(* Properties of the carriage follow step (SpecFollow)                     *)
(***************************************************************************)

\* C18 as stated: after a call of updateCarriagePositions the stored
\* progress of every carriage, the locomotive at index 0 included, lies
\* within [0, 0.99].
C18_AllProgressClamped ==
    call.fn = "updateCarriagePositions" =>
        \A k \in 1 .. Len(train.carriages) : train.carriages[k].progress \in 0 .. 990

\* C18 amended: after a call of updateCarriagePositions the stored progress
\* of every carriage behind the locomotive lies within [0, 0.99]; the
\* locomotive at index 0 stores the lead progress unclamped, which lies in
\* [0, 1) and can exceed 0.99.
C18_FollowersClamped ==
    call.fn = "updateCarriagePositions" =>
        /\ \A k \in 2 .. Len(train.carriages) : train.carriages[k].progress \in 0 .. 990
        /\ train.carriages[1].progress = train.progress
        /\ train.carriages[1].progress \in 0 .. (PROGRESS_ONE - 1)

\* C18 witness: a locomotive stored with progress above 0.99
C18_Witness ==
    /\ call.fn = "updateCarriagePositions"
    /\ Len(train.carriages) = 10
    /\ train.carriages[1].progress > 990

\* C18 witness: a carriage behind the locomotive held at 0.99 by the clamp
C18_WitnessClamp ==
    /\ call.fn = "updateCarriagePositions"
    /\ train.progress = 275
    /\ train.carriages[2].progress = 990

(***************************************************************************)
(* Properties of the lead progress (SpecEdit)                              *)
(***************************************************************************)

\* C19: the lead progress is in [0,1) at spawn and after every call of
\* updateTrain that returns true, also after a step that crosses several
\* tiles and after a bounce off an invalid next tile.
C19_LeadProgress ==
    (/\ train # NoTrain
     /\ \/ call.fn = "spawnTrain"
        \/ call.fn = "updateTrain" /\ call.ret = TRUE) =>
        train.progress \in 0 .. (PROGRESS_ONE - 1)

\* C19 witness: a first call of 8 seconds that took a passenger train two
\* tiles on
C19_Witness ==
    /\ call.fn = "updateTrain"
    /\ call.ret = TRUE
    /\ call.delta * call.speedMultiplier = 8
    /\ train.age = 8
    /\ Len(train.path) = 3
    /\ train.progress \in 0 .. (PROGRESS_ONE - 1)

\* C19 witness: a bounce in place on a tile left without any connection
C19_WitnessBounce ==
    /\ call.fn = "updateTrain"
    /\ call.ret = TRUE
    /\ train.progress = 500
    /\ ~HasLiveConnection(train.tileX, train.tileY)

(***************************************************************************)
(* Properties of the carriages of a train (Spec)                           *)
(***************************************************************************)

\* the types and colours of the carriages, head to tail
Consist(t) == [k \in 1 .. Len(t.carriages) |->
                  <<t.carriages[k].type, t.carriages[k].color>>]

\* C20: a train has 5 to 8 carriages if it is a passenger train and 6 to 10
\* if it is a freight train, a locomotive at index 0 and a caboose last;
\* no call of updateTrain adds, removes, reorders or retypes a carriage.
C20_CarriagesFixed ==
    [][train' # NoTrain =>
          LET n == Len(train'.carriages)
          IN  /\ train'.type = "passenger" => n \in 5 .. 8
              /\ train'.type = "freight" => n \in 6 .. 10
              /\ train'.carriages[1].type = "locomotive"
              /\ train'.carriages[n].type = "caboose"
              /\ \A k \in 2 .. (n - 1) :
                    train'.carriages[k].type \notin {"locomotive", "caboose"}
              /\ train # NoTrain => Consist(train') = Consist(train)]_vars

\* C20 witness: a freight train of 10 carriages whose caboose has been moved
\* off the spawn tile by the carriage follow step
C20_Witness ==
    /\ call.fn = "updateTrain"
    /\ train.type = "freight"
    /\ Len(train.carriages) = 10
    /\ train.carriages[10].type = "caboose"
    /\ Point(train.carriages[10].tileX, train.carriages[10].tileY) # train.path[1]

\* C20 witness: a passenger train of 5 carriages under way
C20_WitnessShort ==
    /\ call.fn = "updateTrain"
    /\ train.type = "passenger"
    /\ Len(train.carriages) = 5
    /\ Len(train.path) > 2

(***************************************************************************)
(* Properties of the id generator (SpecSpawn)                              *)
(***************************************************************************)

\* C21: over a sequence of spawnTrain calls on one id generator each train
\* returned gets an id strictly greater than the id of every train returned
\* before it, and a call that returns null does not consume an id.
C21_MonotonicIds ==
    [][call'.fn = "spawnTrain" =>
          IF call'.ret = NoTrain
          THEN trainIdRef' = trainIdRef /\ train' = train
          ELSE /\ train' = call'.ret
               /\ train # NoTrain => call'.ret.id > train.id
               /\ call'.ret.id >= trainIdRef
               /\ trainIdRef' > call'.ret.id]_vars

\* C21 witness: a third train on the grid where a spawn from the station fails
C21_Witness ==
    /\ call.fn = "spawnTrain"
    /\ call.ret # NoTrain
    /\ call.ret.id = 2
    /\ grid = TwoRowGrid

\* C21 witness: a failed call between two trains
C21_WitnessNull ==
    /\ call.fn = "spawnTrain"
    /\ call.ret = NoTrain
    /\ train # NoTrain
    /\ trainIdRef = 1

(***************************************************************************)
(* Properties of a train on a closed loop (Spec)                           *)
(***************************************************************************)

\* the rail of the grid is a closed loop: only grass and rail, and every
\* rail tile has exactly two live connections
ClosedLoop ==
    /\ \A c \in Cells : TypeAt(c[1], c[2]) \in {"grass", "rail"}
    /\ \E c \in Cells : TypeAt(c[1], c[2]) = "rail"
    /\ \A c \in Cells : TypeAt(c[1], c[2]) = "rail" =>
          Cardinality({d \in DirSet :
                          CarriesRail(NeighbourX(c[1], d), NeighbourY(c[2], d))}) = 2

\* the path never turns back onto the tile it has just left
NoTurningBack(path) ==
    \A k \in 1 .. (Len(path) - 2) : path[k + 2] # path[k]

\* tiles travelled since the spawn, in thousandths
Travelled(t) == Len(t.path) * PROGRESS_ONE + t.progress

\* C22: on an unmodified closed rail loop a train runs without dead-ending:
\* in every updateTrain call the tile ahead is valid rail, pickNextDirection
\* does not return null, the train never reverses into the tile it has just
\* left, and until it ages out the lead moves on round the loop by
\* speed x delta x speedMultiplier in every call.
C22_ClosedLoop ==
    [][(ClosedLoop /\ call'.fn = "updateTrain") =>
          /\ CarriesRail(AheadX(train), AheadY(train))
          /\ CarriesRail(AheadX(train'), AheadY(train'))
          /\ pickNextDirection(train'.direction, grid, gridSize,
                               train'.tileX, train'.tileY) # NullDirection
          /\ NoTurningBack(train'.path)
          /\ call'.ret = TRUE =>
                Travelled(train') = Travelled(train)
                    + train.speed * call'.delta * call'.speedMultiplier]_vars

\* C22 witness: a train back on its spawn tile after a full lap of the
\* loop of 12 tiles
C22_Witness ==
    /\ ClosedLoop
    /\ call.fn = "updateTrain"
    /\ Len(train.path) >= 13
    /\ train.path[13] = train.path[1]
    /\ Cardinality({train.path[k] : k \in 1 .. 12}) = 12

(***************************************************************************)
(* Properties of a train on a straight line (SpecLine)                     *)
(***************************************************************************)

\* C23: on an unmodified straight rail line a train never reverses heading
\* mid-line: its heading changes only in a call in which its lead moves onto
\* one of the two end tiles, and the lead advances one tile per unit of
\* accumulated progress.
C23_StraightLine ==
    [][call'.fn = "updateTrain" =>
          /\ train'.direction # train.direction =>
                /\ train'.direction = OppositeOf[train.direction]
                /\ \E p \in EnteredTiles : OnTerminus(p.x, p.y)
          /\ call'.ret = TRUE =>
                Travelled(train') = Travelled(train)
                    + train.speed * call'.delta * call'.speedMultiplier]_vars

\* C23 witness: a train turned round on an end tile after a run along the line
C23_Witness ==
    /\ call.fn = "updateTrain"
    /\ Len(train.path) >= 4
    /\ OnTerminus(train.tileX, train.tileY)
    /\ CarriesRail(AheadX(train), AheadY(train))
    /\ train.path[Len(train.path) - 1] = Point(AheadX(train), AheadY(train))

(***************************************************************************)
(* Properties of the grid reads (SpecReads)                                *)
(***************************************************************************)

\* the tiles indexed by the call that has just been made
ReadsOfCall ==
    CASE call'.fn = "isRailTile" -> isRailTileReads(gridSize, call'.x, call'.y)
      [] call'.fn = "isRailStationTile" ->
             isRailStationTileReads(grid, gridSize, call'.x, call'.y)
      [] call'.fn = "getAdjacentRail" -> getAdjacentRailReads(grid, gridSize, call'.x, call'.y)
      [] call'.fn = "getAdjacentRailForOverlay" ->
             getAdjacentRailForOverlayReads(grid, gridSize, call'.x, call'.y)
                 \cup getAdjacentRailReads(grid, gridSize, call'.x, call'.y)
      [] call'.fn = "getRailDirectionOptions" ->
             getRailDirectionOptionsReads(grid, gridSize, call'.x, call'.y)
      [] call'.fn = "findPathOnRails" ->
             findPathOnRailsReads(grid, gridSize, call'.startX, call'.startY,
                                  call'.endX, call'.endY)
      [] call'.fn = "spawnTrain" -> spawnTrainReads(grid, gridSize)
      [] call'.fn = "updateTrain" -> updateTrainReads(train, train', grid, gridSize)
      [] OTHER -> {}

\* C24: no rail function indexes the grid outside [0,size) x [0,size): in
\* isRailTile, isRailStationTile, getAdjacentRail, getAdjacentRailForOverlay,
\* getRailDirectionOptions, findPathOnRails, spawnTrain and updateTrain every
\* tile read lies inside the grid, for coordinates off the grid, trains on
\* edge tiles and stations on the border.
C24_ReadsInBounds ==
    [][ReadsOfCall \subseteq Cells]_vars

\* C24 witness: a train has moved onto a border tile of a grid whose station
\* lies in the corner: its options were probed past the edge
C24_Witness ==
    /\ grid = BorderStationGrid
    /\ call.fn = "updateTrain"
    /\ call.ret = TRUE
    /\ Len(train.path) >= 2
    /\ OnStation(train.tileX, train.tileY)
    /\ \E d \in DirSet : ~InGrid(NeighbourX(train.tileX, d), NeighbourY(train.tileY, d))

\* C24 second witness: a station probe on an empty tile of the grid's border
C24_WitnessProbe ==
    /\ call.fn = "isRailStationTile"
    /\ TypeAt(call.x, call.y) = "empty"
    /\ call.x = 0
    /\ call.ret = TRUE

(***************************************************************************)
(* Properties of the carriage-follow step (SpecFollow)                     *)
(***************************************************************************)

\* the target progress of carriage i (from 0) and the whole tiles it lacks
TargetProgress(i) == train.progress - i * CARRIAGE_SPACING

Deficit(i) ==
    IF TargetProgress(i) >= 0 THEN 0
    ELSE (PROGRESS_ONE - 1 - TargetProgress(i)) \div PROGRESS_ONE

\* the heading of the step from tile a to the adjacent tile b
StepDirection(a, b) ==
    CHOOSE d \in DirSet : NeighbourX(a.x, d) = b.x /\ NeighbourY(a.y, d) = b.y

\* C25: in the carriage-follow step a trailing carriage i whose target
\* progress (lead progress minus i x 0.28) is still negative when the path
\* history is exhausted is pinned to the oldest history entry with stored
\* progress 0; otherwise it is placed on the history tile reached by walking
\* back one entry per unit of deficit, with its heading taken from the step
\* between that history entry and the next one (the lead's heading on the
\* lead's own tile).
C25_CarriageFollow ==
    call.fn = "updateCarriagePositions" =>
        \A i \in 1 .. (Len(train.carriages) - 1) :
            LET carriage == train.carriages[i + 1]
                len == Len(train.path)
                entry == len - Deficit(i)
            IN  IF Deficit(i) > len - 1
                THEN /\ Point(carriage.tileX, carriage.tileY) = train.path[1]
                     /\ carriage.progress = 0
                ELSE /\ Point(carriage.tileX, carriage.tileY) = train.path[entry]
                     /\ carriage.progress =
                            Min(990, TargetProgress(i) + Deficit(i) * PROGRESS_ONE)
                     /\ carriage.direction =
                            IF Deficit(i) = 0 THEN train.direction
                            ELSE StepDirection(train.path[entry], train.path[entry + 1])

\* C25 witness: a train with three tiles of history, one carriage pinned to
\* the oldest entry and one placed on an entry between it and the lead
C25_Witness ==
    /\ call.fn = "updateCarriagePositions"
    /\ Len(train.path) = 3
    /\ \E i \in 1 .. (Len(train.carriages) - 1) : Deficit(i) = 3
    /\ \E i \in 1 .. (Len(train.carriages) - 1) :
          /\ Deficit(i) = 1
          /\ Point(train.carriages[i + 1].tileX, train.carriages[i + 1].tileY) = train.path[2]

(***************************************************************************)
(* Termination and work of the pathfinder (SpecPath)                       *)
(***************************************************************************)

\* C26: findPathOnRails terminates on every grid and every pair of endpoints,
\* reachable or not, with a path that ends on the end cell or with null; no
\* cell is taken off the queue twice, so the grid cells it expands number at
\* most size x size (a start off the grid is one queue entry more).
C26_EachCellOnce ==
    call.fn = "findPathOnRails" =>
        /\ \/ call.ret = Null
           \/ call.ret[Len(call.ret)] = Point(call.endX, call.endY)
        /\ \A j, k \in 1 .. Len(call.shifted) :
              j # k => call.shifted[j] # call.shifted[k]
        /\ Len(SelectSeq(call.shifted, LAMBDA c : c \in Cells)) <= gridSize * gridSize
        /\ \A k \in 2 .. Len(call.shifted) : Passable(call.shifted[k])
        /\ InGrid(call.startX, call.startY) => Len(call.shifted) <= gridSize * gridSize

\* C26 witness: a search for an end that is out of reach has expanded every
\* cell of the grid
C26_Witness ==
    /\ call.fn = "findPathOnRails"
    /\ call.ret = Null
    /\ InGrid(call.startX, call.startY)
    /\ Len(call.shifted) = gridSize * gridSize

(***************************************************************************)
(* Station stops and the lead tile (Spec)                                  *)
(***************************************************************************)

\* C27 as stated: on a grid that is not modified, whenever a train's
\* atStation flag is set after an updateTrain call the train's lead tile is a
\* station tile, for every step size.
C27_DwellOnStation ==
    (call.fn = "updateTrain" /\ train.atStation) =>
        isRailStationTile(grid, gridSize, train.tileX, train.tileY)

\* a train stands on valid track and heads for valid track
OnTrack(t) ==
    /\ CarriesRail(t.tileX, t.tileY)
    /\ CarriesRail(AheadX(t), AheadY(t))

\* C28: on a grid that is not modified after the spawn, for every train
\* returned by spawnTrain and after every updateTrain call the lead tile is
\* rail-or-station and so is the tile one step ahead in the train's heading;
\* the invalid-next-tile branch is never taken (a train that does not dwell
\* moves on by speed x delta x speedMultiplier, and its path is a walk over
\* adjacent tiles), and updateTrain returns false only because age exceeds
\* maxAge.
C28_AlwaysOnTrack ==
    /\ [](train # NoTrain => OnTrack(train))
    /\ [][call'.fn = "updateTrain" =>
            /\ call'.ret = FALSE <=> train'.age > train'.maxAge
            /\ (call'.ret = TRUE /\ ~train.atStation) =>
                  Travelled(train') = Travelled(train)
                      + train.speed * call'.delta * call'.speedMultiplier
            /\ \A k \in 1 .. (Len(train'.path) - 1) :
                  Adjacent4(<<train'.path[k].x, train'.path[k].y>>,
                            <<train'.path[k + 1].x, train'.path[k + 1].y>>)]_vars

\* C28 witness: a train that has turned round at a dead end and runs on
C28_Witness ==
    /\ call.fn = "updateTrain"
    /\ call.ret = TRUE
    /\ \E k \in 1 .. (Len(train.path) - 3) :
          /\ train.path[k + 2] = train.path[k]
          /\ OnTerminus(train.path[k + 1].x, train.path[k + 1].y)

\* C28 second witness: a train is retired, by its age
C28_WitnessRetired ==
    /\ call.fn = "updateTrain"
    /\ call.ret = FALSE
    /\ train.age > train.maxAge
    /\ Len(train.path) >= 10

(***************************************************************************)
(* Order of the carriages along the path (Spec)                            *)
(***************************************************************************)

\* the path-history entry carriage i (from 0) is placed on: as many entries
\* behind the lead as it lacks whole tiles, the oldest entry at most
Entry(i) == Max(1, Len(train.path) - Deficit(i))

\* C29: after every carriage-follow step the carriages keep their
\* head-to-tail order along the path: carriage i+1 sits on the same
\* path-history entry as carriage i or on an older one, and when both sit on
\* the same entry the progress of carriage i+1 is not greater than that of
\* carriage i; every carriage's tile is a tile of the train's path history.
C29_HeadToTail ==
    call.fn = "updateTrain" =>
        LET n == Len(train.carriages)
        IN  /\ \A i \in 0 .. (n - 1) :
                  Point(train.carriages[i + 1].tileX, train.carriages[i + 1].tileY)
                      = train.path[Entry(i)]
            /\ \A i \in 0 .. (n - 2) :
                  /\ Entry(i + 1) <= Entry(i)
                  /\ Entry(i + 1) = Entry(i) =>
                        train.carriages[i + 2].progress <= train.carriages[i + 1].progress

\* C29 witness: a train strung out over three entries of its path, two of
\* its carriages on one entry, on a path that has come back to a tile
C29_Witness ==
    /\ call.fn = "updateTrain"
    /\ call.ret = TRUE
    /\ Entry(Len(train.carriages) - 1) <= Entry(0) - 2
    /\ \E i \in 1 .. (Len(train.carriages) - 2) : Entry(i + 1) = Entry(i)
    /\ \E j, k \in 1 .. Len(train.path) : j # k /\ train.path[j] = train.path[k]

(***************************************************************************)
(* Retirement of trains (SpecLive)                                         *)
(***************************************************************************)

\* C30: every train is eventually retired: under a driver that calls
\* updateTrain in every tick with delta x speedMultiplier of at least a fixed
\* positive amount, for every train, whatever the grid, its route, its
\* station dwells and its bounces, some call returns false after finitely
\* many ticks; the age grows by delta x speedMultiplier in every call.
C30_EventuallyRetired ==
    /\ [][call'.fn = "updateTrain" =>
            /\ train'.age = train.age + call'.delta * call'.speedMultiplier
            /\ train'.age > train.age]_vars
    /\ (train # NoTrain) ~> Expired

\* C30 witness: a passenger train that has dwelt at a station and has had
\* track removed under it is retired by its age
C30_Witness ==
    /\ Expired
    /\ train.age > train.maxAge
    /\ train.type = "passenger"
    /\ edits >= 1
    /\ \E k \in 1 .. Len(train.path) : OnStation(train.path[k].x, train.path[k].y)

====
